---------------------------- MODULE Spec2Model ----------------------------
(***************************************************************************)
(* A model of the webspec-lens language server (webspec_index/lsp):        *)
(* the text matcher, the scope builder, the coverage engine and the        *)
(* version-keyed document analyzer with its debounced reanalysis.          *)
(*                                                                         *)
(* Texts are sequences of one-character strings.  Fractions (similarity    *)
(* scores, thresholds) are compared by cross-multiplication of integers.   *)
(***************************************************************************)
EXTENDS Integers, Sequences, FiniteSets, TLC

VARIABLES
    args,             \* the arguments of the function called directly
    ret,              \* its result, or NoResult before the call
    server,           \* the SpecLensServer object: its fields and its provider
    workspace,        \* the open documents: uri -> [text, version], or None
    _debounce_tasks,  \* uri -> the number of its registered task, 0 for no entry
    tasks,            \* every debounce task created so far
    initialized,      \* the client has sent its initialized notification
    event             \* the handler that ran last, and what it returned or published

serverVars == <<server, workspace, _debounce_tasks, tasks, initialized, event>>

vars == <<args, ret, server, workspace, _debounce_tasks, tasks, initialized, event>>

\* ret before the call; afterwards ret is [done |-> TRUE, value |-> v]
NoResult == [done |-> FALSE]

Result(v) == [done |-> TRUE, value |-> v]

(***************************************************************************)
(* Generic helpers on sequences.                                           *)
(***************************************************************************)
SeqsUpTo(S, n) == UNION {[1..k -> S] : k \in 0..n}

Range(s) == {s[i] : i \in DOMAIN s}

Min2(a, b) == IF a <= b THEN a ELSE b

Max2(a, b) == IF a >= b THEN a ELSE b

\* s[from..], the empty sequence when from is past the end
Drop(s, from) == IF from > Len(s) THEN <<>> ELSE SubSeq(s, from, Len(s))

\* the least index j >= from with s[j] = ch, or 0 when there is none
IndexFrom(s, ch, from) ==
    LET hits == {j \in from..Len(s) : s[j] = ch}
    IN  IF hits = {} THEN 0 ELSE CHOOSE j \in hits : \A k \in hits : j <= k

\* str.startswith
StartsWith(s, p) == Len(p) <= Len(s) /\ SubSeq(s, 1, Len(p)) = p

\* the `in` operator of two strings
Contains(s, p) ==
    \E i \in 1..(Len(s) - Len(p) + 1) : SubSeq(s, i, i + Len(p) - 1) = p

(***************************************************************************)
(* steps.py: strip_markdown.  Each re.sub replaces the leftmost match and  *)
(* goes on after it; a position where the pattern fails is kept and the    *)
(* search moves one character on.                                          *)
(***************************************************************************)
\* _MD_LINK_RE  \[([^\]]*)\]\([^)]*\)  ->  \1
RECURSIVE SubLink(_)
SubLink(s) ==
    IF s = <<>> THEN <<>>
    ELSE LET k == IndexFrom(s, "]", 2)
             m == IF k = 0 THEN 0 ELSE IndexFrom(s, ")", k + 2)
         IN  IF s[1] = "[" /\ k # 0 /\ k + 1 <= Len(s) /\ s[k + 1] = "(" /\ m # 0
             THEN SubSeq(s, 2, k - 1) \o SubLink(Drop(s, m + 1))
             ELSE <<s[1]>> \o SubLink(Tail(s))

\* _MD_BOLD_RE  \*\*([^*]*)\*\*  ->  \1
RECURSIVE SubBold(_)
SubBold(s) ==
    IF s = <<>> THEN <<>>
    ELSE LET k == IndexFrom(s, "*", 3)
         IN  IF /\ Len(s) >= 4 /\ s[1] = "*" /\ s[2] = "*"
                /\ k # 0 /\ k + 1 <= Len(s) /\ s[k + 1] = "*"
             THEN SubSeq(s, 3, k - 1) \o SubBold(Drop(s, k + 2))
             ELSE <<s[1]>> \o SubBold(Tail(s))

\* a pattern  D([^D]*)D  ->  \1  for a one-character delimiter D
RECURSIVE SubDelimited(_, _)
SubDelimited(s, d) ==
    IF s = <<>> THEN <<>>
    ELSE LET k == IndexFrom(s, d, 2)
         IN  IF s[1] = d /\ k # 0
             THEN SubSeq(s, 2, k - 1) \o SubDelimited(Drop(s, k + 1), d)
             ELSE <<s[1]>> \o SubDelimited(Tail(s), d)

\* _MD_ITALIC_RE  \*([^*]*)\*
SubItalic(s) == SubDelimited(s, "*")

\* the backquote character (written as a name: the character itself is not
\* accepted inside a string of this notation)
Backquote == "BACKQUOTE"

\* _MD_CODE_RE: a backquote, ([^backquote]*), a backquote
SubCode(s) == SubDelimited(s, Backquote)

strip_markdown(text) == SubCode(SubItalic(SubBold(SubLink(text))))

(***************************************************************************)
(* matcher.py: normalize_text.                                             *)
(***************************************************************************)
Whitespace == {" ", "\t", "\n"}

TrailingPunct == {".", ",", ":", ";", "!", "?"}

\* _WHITESPACE_RE.sub: every run of whitespace becomes one space
RECURSIVE CollapseWhitespace(_)
CollapseWhitespace(s) ==
    IF s = <<>> THEN <<>>
    ELSE IF s[1] \in Whitespace
         THEN IF Len(s) >= 2 /\ s[2] \in Whitespace
              THEN CollapseWhitespace(Tail(s))
              ELSE <<" ">> \o CollapseWhitespace(Tail(s))
         ELSE <<s[1]>> \o CollapseWhitespace(Tail(s))

RECURSIVE LStrip(_)
LStrip(s) ==
    IF s # <<>> /\ s[1] \in Whitespace THEN LStrip(Tail(s)) ELSE s

RECURSIVE RStripSet(_, _)
RStripSet(s, S) ==
    IF s # <<>> /\ s[Len(s)] \in S THEN RStripSet(SubSeq(s, 1, Len(s) - 1), S) ELSE s

\* str.strip()
Strip(s) == RStripSet(LStrip(s), Whitespace)

LowerChar(ch) ==
    CASE ch = "A" -> "a"
      [] ch = "B" -> "b"
      [] ch = "C" -> "c"
      [] ch = "I" -> "i"
      [] ch = "U" -> "u"
      [] OTHER -> ch

\* str.lower()
Lower(s) == [i \in 1..Len(s) |-> LowerChar(s[i])]

\* _TRAILING_PUNCT_RE.sub that removes nothing
KeepTrailingPunct(s) == s

\* _TRAILING_PUNCT_RE.sub('', text)
StripTrailingPunct(s) == RStripSet(s, TrailingPunct)

normalize_text(text) ==
    StripTrailingPunct(Lower(Strip(CollapseWhitespace(strip_markdown(text)))))

(***************************************************************************)
(* matcher.py: jaro_winkler.  The score is the fraction                    *)
(* JaroWinklerNum / JaroWinklerDen; indices here are 1-based.              *)
(***************************************************************************)
\* the matching loop (lines 54-63): the matched index sets of s1 and of s2
RECURSIVE JaroMatches(_, _, _, _, _)
JaroMatches(s1, s2, i, m1, m2) ==
    IF i > Len(s1) THEN <<m1, m2>>
    ELSE LET match_distance == Max2(Max2(Len(s1), Len(s2)) \div 2 - 1, 0)
             start == Max2(1, i - match_distance)
             end == Min2(i + match_distance, Len(s2))
             free == {j \in start..end : j \notin m2 /\ s1[i] = s2[j]}
         IN  IF free = {} THEN JaroMatches(s1, s2, i + 1, m1, m2)
             ELSE LET j == CHOOSE x \in free : \A y \in free : x <= y
                  IN  JaroMatches(s1, s2, i + 1, m1 \cup {i}, m2 \cup {j})

\* the elements of a set of integers in increasing order
RECURSIVE SortedSeq(_)
SortedSeq(S) ==
    IF S = {} THEN <<>>
    ELSE LET x == CHOOSE a \in S : \A b \in S : a <= b
         IN  <<x>> \o SortedSeq(S \ {x})

\* the transposition loop (lines 68-76): matched characters, taken in order
\* from each string, that differ
JaroTranspositions(s1, s2, m1, m2) ==
    LET o1 == SortedSeq(m1)
        o2 == SortedSeq(m2)
    IN  Cardinality({n \in 1..Len(o1) : s1[o1[n]] # s2[o2[n]]})

\* the common prefix length, at most 4 (lines 81-86)
RECURSIVE CommonPrefix(_, _, _)
CommonPrefix(s1, s2, i) ==
    IF i <= Min2(4, Min2(Len(s1), Len(s2))) /\ s1[i] = s2[i]
    THEN 1 + CommonPrefix(s1, s2, i + 1)
    ELSE 0

\* jaro = (m/len1 + m/len2 + (m - t/2)/m) / 3  =  JaroNum / JaroDen
JaroDen(s1, s2, m) == 6 * Len(s1) * Len(s2) * m

JaroNum(s1, s2, m, t) ==
    2 * Len(s2) * m * m + 2 * Len(s1) * m * m + (2 * m - t) * Len(s1) * Len(s2)

\* jaro_winkler(s1, s2) as the pair <<numerator, denominator>>;
\* prefix_weight is 1/10
jaro_winkler(s1, s2) ==
    IF s1 = s2 THEN <<1, 1>>
    ELSE IF s1 = <<>> \/ s2 = <<>> THEN <<0, 1>>
    ELSE LET mm == JaroMatches(s1, s2, 1, {}, {})
             m == Cardinality(mm[1])
         IN  IF m = 0 THEN <<0, 1>>
             ELSE LET t == JaroTranspositions(s1, s2, mm[1], mm[2])
                      jn == JaroNum(s1, s2, m, t)
                      jd == JaroDen(s1, s2, m)
                      prefix == CommonPrefix(s1, s2, 1)
                  IN  <<10 * jn + prefix * (jd - jn), 10 * jd>>

(***************************************************************************)
(* matcher.py: classify_match.  threshold is in hundredths (85 = 0.85).    *)
(***************************************************************************)
EXACT == "EXACT"
FUZZY == "FUZZY"
MISMATCH == "MISMATCH"
NOT_FOUND == "NOT_FOUND"

MatchResult == {EXACT, FUZZY, MISMATCH, NOT_FOUND}

\* similarity >= threshold
SimilarEnough(norm_comment, norm_spec, threshold) ==
    LET jw == jaro_winkler(norm_comment, norm_spec)
    IN  100 * jw[1] >= threshold * jw[2]

\* classify_match without its guard on an empty normalized text (lines 110-111)
classify_match_unguarded(comment_text, spec_text, threshold) ==
    IF Strip(comment_text) = <<>> THEN EXACT
    ELSE LET norm_comment == normalize_text(comment_text)
             norm_spec == normalize_text(spec_text)
         IN  IF norm_comment = norm_spec THEN EXACT
             ELSE IF StartsWith(norm_spec, norm_comment)
                     \/ StartsWith(norm_comment, norm_spec) THEN FUZZY
             ELSE IF Contains(norm_spec, norm_comment)
                     \/ Contains(norm_comment, norm_spec) THEN FUZZY
             ELSE IF SimilarEnough(norm_comment, norm_spec, threshold) THEN FUZZY
             ELSE MISMATCH

\* classify_match whose guard tests the wrong text (norm_spec for norm_comment)
classify_match_swapped(comment_text, spec_text, threshold) ==
    IF Strip(comment_text) = <<>> THEN EXACT
    ELSE LET norm_comment == normalize_text(comment_text)
             norm_spec == normalize_text(spec_text)
         IN  IF norm_comment = <<>> \/ norm_spec = <<>>
             THEN (IF norm_spec = <<>> THEN EXACT ELSE MISMATCH)
             ELSE IF norm_comment = norm_spec THEN EXACT
             ELSE IF StartsWith(norm_spec, norm_comment)
                     \/ StartsWith(norm_comment, norm_spec) THEN FUZZY
             ELSE IF Contains(norm_spec, norm_comment)
                     \/ Contains(norm_comment, norm_spec) THEN FUZZY
             ELSE IF SimilarEnough(norm_comment, norm_spec, threshold) THEN FUZZY
             ELSE MISMATCH

classify_match(comment_text, spec_text, threshold) ==
    IF Strip(comment_text) = <<>> THEN EXACT
    ELSE LET norm_comment == normalize_text(comment_text)
             norm_spec == normalize_text(spec_text)
         IN  IF norm_comment = <<>> \/ norm_spec = <<>>
             THEN (IF norm_comment = <<>> THEN EXACT ELSE MISMATCH)
             ELSE IF norm_comment = norm_spec THEN EXACT
             ELSE IF StartsWith(norm_spec, norm_comment)
                     \/ StartsWith(norm_comment, norm_spec) THEN FUZZY
             ELSE IF Contains(norm_spec, norm_comment)
                     \/ Contains(norm_comment, norm_spec) THEN FUZZY
             ELSE IF SimilarEnough(norm_comment, norm_spec, threshold) THEN FUZZY
             ELSE MISMATCH

(***************************************************************************)
(* steps.py: the algorithm tree.  A node is [number, text, children]; a    *)
(* list of steps is a sequence of nodes.  None stands for Python's None.   *)
(***************************************************************************)
None == [none |-> TRUE]

AlgorithmStep(number, text, children) ==
    [number |-> number, text |-> text, children |-> children]

\* the list a path of child indices leads to (<<>>: the top-level list)
RECURSIVE ListAt(_, _)
ListAt(steps, path) ==
    IF path = <<>> THEN steps ELSE ListAt(steps[Head(path)].children, Tail(path))

\* list.append(step) on the list a path leads to
RECURSIVE AppendAt(_, _, _)
AppendAt(steps, path, step) ==
    IF path = <<>> THEN Append(steps, step)
    ELSE [steps EXCEPT ![Head(path)] =
              [@ EXCEPT !.children = AppendAt(@, Tail(path), step)]]

\* lines 107-109: pop the stack until the parent level is on top
RECURSIVE PopToParent(_, _)
PopToParent(stack, indent) ==
    IF Len(stack) > 1 /\ stack[Len(stack)].indent >= indent
    THEN PopToParent(SubSeq(stack, 1, Len(stack) - 1), indent)
    ELSE stack

\* lines 98-123 of parse_steps: the hierarchy built from raw_steps, a sequence
\* of [indent, text]; a stack entry is [indent, path of the list it stands for]
RECURSIVE BuildHierarchy(_, _, _, _)
BuildHierarchy(raw_steps, i, steps, stack) ==
    IF i > Len(raw_steps) THEN steps
    ELSE LET popped == PopToParent(stack, raw_steps[i].indent)
             parent == popped[Len(popped)].path
             step == AlgorithmStep(<<>>, strip_markdown(raw_steps[i].text), <<>>)
             index == Len(ListAt(steps, parent)) + 1
         IN  BuildHierarchy(raw_steps, i + 1, AppendAt(steps, parent, step),
                 Append(popped, [indent |-> raw_steps[i].indent,
                                 path |-> Append(parent, index)]))

\* _assign_numbers handing the children their parent's prefix
RECURSIVE AssignWithoutParent(_, _)
AssignWithoutParent(steps, prefix) ==
    [i \in 1..Len(steps) |->
        AlgorithmStep(Append(prefix, i), steps[i].text,
                      AssignWithoutParent(steps[i].children, prefix))]

\* _assign_numbers
RECURSIVE _assign_numbers(_, _)
_assign_numbers(steps, prefix) ==
    [i \in 1..Len(steps) |->
        AlgorithmStep(Append(prefix, i), steps[i].text,
                      _assign_numbers(steps[i].children, Append(prefix, i)))]

\* parse_steps from the collected raw_steps on
parse_steps(raw_steps) ==
    _assign_numbers(
        BuildHierarchy(raw_steps, 1, <<>>, <<[indent |-> -1, path |-> <<>>]>>), <<>>)

\* A line of the content is a record: StepSource is a line _STEP_LINE_RE
\* matches, with the spaces before its number, the number written and the
\* text behind it; TextSource is another line that is not blank, with its
\* leading whitespace and the rest; BlankSource is a line strip() empties.
StepSource(spaces, num, text) ==
    [kind |-> "step", spaces |-> spaces, num |-> num, text |-> text]

TextSource(spaces, stripped) == [kind |-> "text", spaces |-> spaces, stripped |-> stripped]

BlankSource == [kind |-> "blank"]

\* _parse_step_line: (indent, num, text), or None for a line that is no step
_parse_step_line(line) ==
    IF line.kind = "step"
    THEN [indent |-> line.spaces \div 4, num |-> line.num, text |-> line.text]
    ELSE None

\* lines 74-92: the continuation lines behind a step; gives the text and the
\* index j of the line the outer loop goes on with
RECURSIVE AccumulateContinuation(_, _, _, _)
AccumulateContinuation(lines, j, indent, text) ==
    IF j > Len(lines) THEN [j |-> j, text |-> text]
    ELSE IF lines[j].kind = "blank"
         THEN AccumulateContinuation(lines, j + 1, indent, text)
    ELSE IF _parse_step_line(lines[j]) # None THEN [j |-> j, text |-> text]
    ELSE IF /\ lines[j].spaces > indent * 4
            /\ Head(lines[j].stripped) \notin {">", "*"}
         THEN AccumulateContinuation(lines, j + 1, indent,
                                     text \o <<" ">> \o lines[j].stripped)
    ELSE [j |-> j, text |-> text]

\* lines 64-96 of parse_steps: raw_steps collected from the lines from i on
RECURSIVE CollectRawSteps(_, _)
CollectRawSteps(lines, i) ==
    IF i > Len(lines) THEN <<>>
    ELSE IF _parse_step_line(lines[i]) = None THEN CollectRawSteps(lines, i + 1)
    ELSE <<[indent |-> _parse_step_line(lines[i]).indent,
            num |-> _parse_step_line(lines[i]).num,
            text |-> AccumulateContinuation(lines, i + 1,
                         _parse_step_line(lines[i]).indent,
                         _parse_step_line(lines[i]).text).text]>>
         \o CollectRawSteps(lines,
                 AccumulateContinuation(lines, i + 1,
                     _parse_step_line(lines[i]).indent,
                     _parse_step_line(lines[i]).text).j)

\* find_step that gives the last node reached for a path leaving the tree
RECURSIVE FindDeepest(_, _, _)
FindDeepest(current, number, target) ==
    IF number = <<>> THEN target
    ELSE IF Head(number) < 1 \/ Head(number) > Len(current) THEN target
    ELSE FindDeepest(current[Head(number)].children, Tail(number),
                     current[Head(number)])

\* the loop of find_step (lines 148-153)
RECURSIVE FindLoop(_, _, _)
FindLoop(current, number, target) ==
    IF number = <<>> THEN target
    ELSE LET n == Head(number)
         IN  IF n < 1 \/ n > Len(current) THEN None
             ELSE FindLoop(current[n].children, Tail(number), current[n])

find_step(steps, number) ==
    IF number = <<>> THEN None ELSE FindLoop(steps, number, None)

RECURSIVE flatten_steps(_)
flatten_steps(steps) ==
    IF steps = <<>> THEN <<>>
    ELSE <<Head(steps)>> \o flatten_steps(Head(steps).children)
                         \o flatten_steps(Tail(steps))

(***************************************************************************)
(* scanner.py: the records of the scanner, and build_scopes.               *)
(***************************************************************************)
UrlMatch(line, col_start, col_end, spec, anchor) ==
    [line |-> line, col_start |-> col_start, col_end |-> col_end,
     spec |-> spec, anchor |-> anchor]

\* end_line is None, or [line |-> n] for the last line of a merged comment
StepComment(line, col_start, col_end, number, text, end_line) ==
    [line |-> line, col_start |-> col_start, col_end |-> col_end,
     number |-> number, text |-> text, end_line |-> end_line]

\* list.insert keeping the order by line, behind the elements of an equal line
RECURSIVE InsertByLine(_, _)
InsertByLine(sorted, x) ==
    IF sorted = <<>> THEN <<x>>
    ELSE IF Head(sorted).line <= x.line
         THEN <<Head(sorted)>> \o InsertByLine(Tail(sorted), x)
         ELSE <<x>> \o sorted

\* sorted(items, key=lambda x: x.line): a stable sort
RECURSIVE SortByLine(_)
SortByLine(items) ==
    IF items = <<>> THEN <<>>
    ELSE InsertByLine(SortByLine(SubSeq(items, 1, Len(items) - 1)), items[Len(items)])

\* BestScope with url.line < step.line for url.line <= step.line
RECURSIVE BestScopeStrict(_, _, _, _)
BestScopeStrict(scopes, step, i, best) ==
    IF i > Len(scopes) THEN best
    ELSE IF scopes[i].url.line < step.line
         THEN BestScopeStrict(scopes, step, i + 1, i)
         ELSE best

\* lines 194-199: the index of the last scope, before the first one whose url
\* lies below the step, with url.line <= step.line; 0 stands for None
RECURSIVE BestScope(_, _, _, _)
BestScope(scopes, step, i, best) ==
    IF i > Len(scopes) THEN best
    ELSE IF scopes[i].url.line <= step.line
         THEN BestScope(scopes, step, i + 1, i)
         ELSE best

\* lines 192-200: the steps, in order, each appended to its scope
RECURSIVE AssignSteps(_, _, _)
AssignSteps(scopes, sorted_steps, k) ==
    IF k > Len(sorted_steps) THEN scopes
    ELSE LET best_scope == BestScope(scopes, sorted_steps[k], 1, 0)
         IN  AssignSteps(
                 IF best_scope = 0 THEN scopes
                 ELSE [scopes EXCEPT ![best_scope].steps = Append(@, sorted_steps[k])],
                 sorted_steps, k + 1)

\* a scope is [url, steps], the pair (url_match, [step_comments])
build_scopes(url_matches, step_comments) ==
    IF url_matches = <<>> THEN <<>>
    ELSE LET sorted_urls == SortByLine(url_matches)
             sorted_steps == SortByLine(step_comments)
             scopes == [i \in 1..Len(sorted_urls) |->
                           [url |-> sorted_urls[i], steps |-> <<>>]]
         IN  AssignSteps(scopes, sorted_steps, 1)

(***************************************************************************)
(* coverage.py.  A validation is [step, result, spec_text, algo_name].     *)
(***************************************************************************)
StepValidation(step, result, spec_text, algo_name) ==
    [step |-> step, result |-> result, spec_text |-> spec_text,
     algo_name |-> algo_name]

\* bisect_left taken for bisect_right: the number of elements up to val
bisect_right(tails, val) == Cardinality({i \in 1..Len(tails) : tails[i] <= val})

\* bisect.bisect_left on a sorted list: the number of elements below val,
\* which is the 0-based insertion point
bisect_left(tails, val) == Cardinality({i \in 1..Len(tails) : tails[i] < val})

RECURSIVE PatienceTails(_, _, _)
PatienceTails(seq, i, tails) ==
    IF i > Len(seq) THEN tails
    ELSE LET pos == bisect_left(tails, seq[i])
         IN  PatienceTails(seq, i + 1,
                 IF pos = Len(tails) THEN Append(tails, seq[i])
                 ELSE [tails EXCEPT ![pos + 1] = seq[i]])

\* no tails kept: the length 0 for every sequence
NoTails(seq) == 0

_longest_increasing_subsequence_length(seq) ==
    IF seq = <<>> THEN 0 ELSE Len(PatienceTails(seq, 1, <<>>))

\* step_to_idx[key]: the 0-based index in flat of the last step numbered key
\* (lines 72-75); asked only for a key that is there
StepToIdx(flat, key) ==
    (CHOOSE i \in 1..Len(flat) :
        /\ flat[i].number = key
        /\ \A j \in 1..Len(flat) : flat[j].number = key => j <= i) - 1

InStepToIdx(flat, key) == \E i \in 1..Len(flat) : flat[i].number = key

\* RecordImplemented without the test of implemented_set
RecordImplementedAgain(acc, flat, key) ==
    [acc EXCEPT
        !.implemented = Append(@, key),
        !.implemented_set = @ \cup {key},
        !.spec_order_indices =
            IF InStepToIdx(flat, key) THEN Append(@, StepToIdx(flat, key)) ELSE @]

\* lines 86-90 and 93-97: a key not seen before is recorded
RecordImplemented(acc, flat, key) ==
    IF key \in acc.implemented_set THEN acc
    ELSE [acc EXCEPT
            !.implemented = Append(@, key),
            !.implemented_set = @ \cup {key},
            !.spec_order_indices =
                IF InStepToIdx(flat, key) THEN Append(@, StepToIdx(flat, key)) ELSE @]

\* CoverageStep that records a NOT_FOUND step as implemented, with its warning
CoverageStepNotFoundCounted(acc, flat, v) ==
    LET key == v.step.number
    IN  IF v.result \in {EXACT, FUZZY} THEN RecordImplemented(acc, flat, key)
        ELSE [RecordImplemented(acc, flat, key) EXCEPT !.warnings = @ + 1]

\* the body of the loop over the validations (lines 83-100)
CoverageStep(acc, flat, v) ==
    LET key == v.step.number
    IN  IF v.result \in {EXACT, FUZZY} THEN RecordImplemented(acc, flat, key)
        ELSE IF v.result = MISMATCH
             THEN [RecordImplemented(acc, flat, key) EXCEPT !.warnings = @ + 1]
        ELSE IF v.result = NOT_FOUND THEN [acc EXCEPT !.warnings = @ + 1]
        ELSE acc

RECURSIVE CoverageLoop(_, _, _, _)
CoverageLoop(acc, flat, validations, i) ==
    IF i > Len(validations) THEN acc
    ELSE CoverageLoop(CoverageStep(acc, flat, validations[i]), flat, validations, i + 1)

\* MissingOf without its filter: every step of flat
MissingOfAll(flat, implemented_set) == [i \in 1..Len(flat) |-> flat[i].number]

\* s.number for s in flat if tuple(s.number) not in implemented_set (line 103)
RECURSIVE MissingOf(_, _)
MissingOf(flat, implemented_set) ==
    IF flat = <<>> THEN <<>>
    ELSE (IF Head(flat).number \notin implemented_set
          THEN <<Head(flat).number>> ELSE <<>>) \o MissingOf(Tail(flat), implemented_set)

compute_coverage(validations, algo_steps, anchor) ==
    LET flat == flatten_steps(algo_steps)
        acc == CoverageLoop([implemented |-> <<>>, implemented_set |-> {},
                             spec_order_indices |-> <<>>, warnings |-> 0],
                            flat, validations, 1)
    IN  [anchor |-> anchor,
         total_steps |-> Len(flat),
         implemented |-> acc.implemented,
         missing |-> MissingOf(flat, acc.implemented_set),
         warnings |-> acc.warnings,
         reordered |-> Len(acc.spec_order_indices)
                         - _longest_increasing_subsequence_length(acc.spec_order_indices)]

\* CoverageResult.implemented_count
implemented_count(cov) == Len(cov.implemented)

(***************************************************************************)
(* The documents and the provider of the server model.  A document text is *)
(* a sequence of lines; a line is a spec URL citation, a step comment, a   *)
(* comment without a step number, or code, and carries the columns the     *)
(* scanner's patterns match on it.  An URL line holds one citation.        *)
(***************************************************************************)
URIs == {"u1", "u2"}

Anchors == {"a", "b", "c", "d"}

UrlLine(base_url, anchor) ==
    [kind |-> "url", base_url |-> base_url, anchor |-> anchor,
     col_start |-> 3, col_end |-> 9, text |-> <<"u">>]

StepLine(number, text) ==
    [kind |-> "step", number |-> number, text |-> text, col_start |-> 0, col_end |-> 8]

CommentLine(text) == [kind |-> "comment", text |-> text, col_end |-> 6]

\* provider.spec_urls()
spec_urls ==
    << [spec |-> "HTML", base_url |-> "html.spec"],
       [spec |-> "DOM", base_url |-> "dom.spec"] >>

\* the keys spec#anchor of _query_spec
Keys == {spec_urls[i].spec : i \in 1..Len(spec_urls)} \X Anchors

\* a record of the provider
Section(spec, anchor, title, type, content) ==
    [spec |-> spec, anchor |-> anchor, title |-> title, type |-> type,
     content |-> content]

\* the sections the provider knows: HTML#a and DOM#a are two algorithms under
\* one anchor, DOM#b is a section without content, HTML#b is unknown, DOM#c
\* is an algorithm under an anchor that is unknown in HTML, DOM#d is a second
\* algorithm of two steps.  The content of a section is its list of step
\* lines [indent, text].
SpecData ==
    (<<"HTML", "a">> :>
        Section("HTML", "a", "A", "algorithm",
                << [indent |-> 0, text |-> <<"a", "b">>],
                   [indent |-> 0, text |-> <<"b">>] >>))
    @@ (<<"DOM", "a">> :>
        Section("DOM", "a", "", "algorithm", << [indent |-> 0, text |-> <<"b">>] >>))
    @@ (<<"DOM", "b">> :> Section("DOM", "b", "B", "", <<>>))
    @@ (<<"DOM", "c">> :>
        Section("DOM", "c", "C", "algorithm", << [indent |-> 0, text |-> <<"b">>] >>))
    @@ (<<"DOM", "d">> :>
        Section("DOM", "d", "D", "algorithm",
                << [indent |-> 0, text |-> <<"a">>],
                   [indent |-> 0, text |-> <<"b">>] >>))

\* a FUZZY or MISMATCH step (by the threshold), a NOT_FOUND step without text
\* and a NOT_FOUND step of two lines
TextFuzzy ==
    << UrlLine("html.spec", "a"), StepLine(<<1>>, <<"a", "c">>),
       StepLine(<<8>>, <<>>), StepLine(<<9>>, <<>>), CommentLine(<<"c">>) >>

\* two citations of the anchor a, in two specs
TextTwoSpecs ==
    << UrlLine("html.spec", "a"), StepLine(<<2>>, <<"b">>),
       UrlLine("dom.spec", "a"), StepLine(<<2>>, <<>>) >>

\* a NOT_FOUND step without text
TextNotFound == << UrlLine("dom.spec", "a"), StepLine(<<3>>, <<>>) >>

\* a citation the provider cannot resolve
TextUnknown == << UrlLine("html.spec", "b"), StepLine(<<1>>, <<"a">>) >>

TextPool == {TextFuzzy, TextTwoSpecs, TextNotFound, TextUnknown}

\* a citation the provider cannot resolve, then one it resolves
TextFailedThenFine ==
    << UrlLine("html.spec", "b"), StepLine(<<1>>, <<"a">>),
       UrlLine("html.spec", "a"), StepLine(<<2>>, <<"b">>) >>

\* a citation of a section without content
TextEmptyContent == << UrlLine("dom.spec", "b"), StepLine(<<1>>, <<"a">>) >>

\* a citation the provider resolves, then one of the same anchor it cannot
TextSharedAnchor ==
    << UrlLine("dom.spec", "c"), StepLine(<<1>>, <<"b">>),
       UrlLine("html.spec", "c"), StepLine(<<1>>, <<"b">>) >>

\* the citations A and B of two algorithms of two steps, arranged as
\* A, stepA1, B, stepB1, stepA2
TextInterleaved ==
    << UrlLine("html.spec", "a"), StepLine(<<1>>, <<"a", "b">>),
       UrlLine("dom.spec", "d"), StepLine(<<1>>, <<"a">>), StepLine(<<2>>, <<"b">>) >>

(***************************************************************************)
(* scanner.py: the two scans of a document.                                *)
(***************************************************************************)
build_url_pattern(urls) == {urls[i].base_url : i \in 1..Len(urls)}

build_spec_lookup(urls) ==
    [b \in {urls[i].base_url : i \in 1..Len(urls)} |->
        urls[CHOOSE i \in 1..Len(urls) :
                /\ urls[i].base_url = b
                /\ \A j \in (i + 1)..Len(urls) : urls[j].base_url # b].spec]

RECURSIVE ScanDocumentFrom(_, _, _, _)
ScanDocumentFrom(text, pattern, spec_lookup, i) ==
    IF i > Len(text) THEN <<>>
    ELSE (IF text[i].kind = "url" /\ text[i].base_url \in pattern
          THEN <<UrlMatch(i - 1, text[i].col_start, text[i].col_end,
                          IF text[i].base_url \in DOMAIN spec_lookup
                          THEN spec_lookup[text[i].base_url] ELSE "",
                          text[i].anchor)>>
          ELSE <<>>) \o ScanDocumentFrom(text, pattern, spec_lookup, i + 1)

scan_document(text, pattern, spec_lookup) == ScanDocumentFrom(text, pattern, spec_lookup, 1)

\* STEP_PATTERN.search(line) finds a match: a step comment, or ("bare") a
\* comment with a single number that has neither prefix nor trailing dot
MatchesStepPattern(line) == line.kind \in {"step", "bare"}

\* the test of lines 122-125 left out: every match is a step comment
AnyMatch(line) == TRUE

\* lines 116-125: has_step_prefix or has_trailing_dot or is_multi_part
HasSignal(line) == line.kind = "step"

\* group 1 of _CONTINUATION_RE on a line: the text behind a comment prefix; an
\* URL citation in a comment is such a text, code has none
ContinuationText(line) ==
    IF line.kind \in {"comment", "url"} THEN line.text ELSE <<>>

\* the loop of lines 130-140 left after its first round: at most one
\* continuation line is consumed
ContinuationOneLine(lines, j, acc) ==
    IF j > Len(lines) THEN acc
    ELSE IF MatchesStepPattern(lines[j]) THEN acc
    ELSE IF ContinuationText(lines[j]) # <<>>
         THEN [text |-> acc.text \o <<" ">> \o ContinuationText(lines[j]),
               col_end |-> lines[j].col_end, j |-> j + 1]
         ELSE acc

\* lines 130-140: the continuation lines from line j on; acc is the step's
\* text and col_end so far and the first line not consumed
RECURSIVE Continuation(_, _, _)
Continuation(lines, j, acc) ==
    IF j > Len(lines) THEN acc
    ELSE IF MatchesStepPattern(lines[j]) THEN acc
    ELSE IF ContinuationText(lines[j]) # <<>>
         THEN Continuation(lines, j + 1,
                  [text |-> acc.text \o <<" ">> \o ContinuationText(lines[j]),
                   col_end |-> lines[j].col_end, j |-> j + 1])
         ELSE acc

\* lines 113-156; line numbers are 0-based in the records, positions 1-based
RECURSIVE ScanStepsFrom(_, _)
ScanStepsFrom(lines, i) ==
    IF i > Len(lines) THEN <<>>
    ELSE IF MatchesStepPattern(lines[i]) /\ HasSignal(lines[i])
         THEN LET c == Continuation(lines, i + 1,
                           [text |-> lines[i].text, col_end |-> lines[i].col_end,
                            j |-> i + 1])
                  end_line == IF c.j > i + 1 THEN [line |-> c.j - 2] ELSE None
              IN  <<StepComment(i - 1, lines[i].col_start, c.col_end,
                                lines[i].number, c.text, end_line)>>
                      \o ScanStepsFrom(lines, c.j)
         ELSE ScanStepsFrom(lines, i + 1)

scan_steps(text) == ScanStepsFrom(text, 1)

\* find_url_at_position
RECURSIVE find_url_at_position(_, _, _)
find_url_at_position(matches, line, col) ==
    IF matches = <<>> THEN None
    ELSE IF Head(matches).line = line /\ Head(matches).col_start <= col
                                      /\ col <= Head(matches).col_end
         THEN Head(matches)
         ELSE find_url_at_position(Tail(matches), line, col)

(***************************************************************************)
(* server.py: the SpecLensServer object.  A dict is a function that gives  *)
(* None for a key without entry.  An operation of the server takes the     *)
(* object s and gives [s, value]: the object afterwards and the value      *)
(* returned.  Thresholds are in hundredths.                                *)
(***************************************************************************)
DefaultThreshold == 85

Some(value) == [present |-> TRUE, value |-> value]

(***************************************************************************)
(* scanner.py: the two patterns on the characters of a line.  Positions    *)
(* are 1-based here; start and end of a match are 0-based as in Python.    *)
(***************************************************************************)
DigitChars == <<"0", "1", "2", "3", "4", "5", "6", "7", "8", "9">>

Digits == Range(DigitChars)

\* the character at position p, "" outside the line
At(s, p) == IF p >= 1 /\ p <= Len(s) THEN s[p] ELSE ""

\* a greedy run: the first position from p on whose character is not in S
RECURSIVE SkipSet(_, _, _)
SkipSet(s, p, S) == IF At(s, p) \in S THEN SkipSet(s, p + 1, S) ELSE p

\* (?://|#|;+|/\*+|\*) at p: the position behind the opener, 0 without one
CommentOpenerEnd(s, p) ==
    IF At(s, p) = "/" /\ At(s, p + 1) = "/" THEN p + 2
    ELSE IF At(s, p) = "#" THEN p + 1
    ELSE IF At(s, p) = ";" THEN SkipSet(s, p, {";"})
    ELSE IF At(s, p) = "/" /\ At(s, p + 1) = "*" THEN SkipSet(s, p + 1, {"*"})
    ELSE IF At(s, p) = "*" THEN p + 1
    ELSE 0

\* (?://|#|;+|\*) of _CONTINUATION_RE at p
ContinuationOpenerEnd(s, p) ==
    IF At(s, p) = "/" /\ At(s, p + 1) = "/" THEN p + 2
    ELSE IF At(s, p) = "#" THEN p + 1
    ELSE IF At(s, p) = ";" THEN SkipSet(s, p, {";"})
    ELSE IF At(s, p) = "*" THEN p + 1
    ELSE 0

\* ([Ss]tep\s+) at p: the position behind it, 0 without it
StepWordEnd(s, p) ==
    IF /\ At(s, p) \in {"S", "s"} /\ At(s, p + 1) = "t" /\ At(s, p + 2) = "e"
       /\ At(s, p + 3) = "p" /\ At(s, p + 4) \in Whitespace
    THEN SkipSet(s, p + 5, Whitespace)
    ELSE 0

\* \d{1,3} at the digit at p: the position behind it
PartEnd(s, p) ==
    IF At(s, p + 1) \notin Digits THEN p + 1
    ELSE IF At(s, p + 2) \notin Digits THEN p + 2
    ELSE p + 3

\* (?:\.\d{1,3})* from q on: the position behind the number
RECURSIVE NumberEnd(_, _)
NumberEnd(s, q) ==
    IF At(s, q) = "." /\ At(s, q + 1) \in Digits THEN NumberEnd(s, PartEnd(s, q + 1))
    ELSE q

\* \s*(?:\*/)?$ matches the whole of rem
ClosesLine(rem) == LStrip(rem) \in {<<>>, <<"*", "/">>}

\* \s*(.*?)\s*(?:\*/)?$ from p on: the group, the shortest text that leaves
\* a rest which closes the line
GroupText(s, p) ==
    LET rest == Drop(s, SkipSet(s, p, Whitespace))
    IN  SubSeq(rest, 1,
               CHOOSE k \in 0..Len(rest) :
                   /\ ClosesLine(Drop(rest, k + 1))
                   /\ \A j \in 0..(k - 1) : ~ClosesLine(Drop(rest, j + 1)))

\* int(p) of a run of digits
RECURSIVE ParseInt(_)
ParseInt(chars) ==
    IF chars = <<>> THEN 0
    ELSE ParseInt(SubSeq(chars, 1, Len(chars) - 1)) * 10
             + (CHOOSE d \in 0..9 : DigitChars[d + 1] = chars[Len(chars)])

\* line 143: [int(p) for p in number_str.split('.')]
RECURSIVE SplitNumber(_)
SplitNumber(number_str) ==
    IF IndexFrom(number_str, ".", 1) = 0 THEN <<ParseInt(number_str)>>
    ELSE <<ParseInt(SubSeq(number_str, 1, IndexFrom(number_str, ".", 1) - 1))>>
             \o SplitNumber(Drop(number_str, IndexFrom(number_str, ".", 1) + 1))

\* the match of STEP_PATTERN that begins at p: the number begins at n and e
\* is the position behind it
StepMatch(s, p, has_step_prefix, n, e) ==
    Some([start |-> p - 1,
          has_step_prefix |-> has_step_prefix,
          number_str |-> SubSeq(s, n, e - 1),
          has_trailing_dot |-> At(s, e) = ".",
          text |-> GroupText(s, IF At(s, e) = "." THEN e + 1 ELSE e),
          end |-> Len(s)])

\* STEP_PATTERN tried at position p: b is the position behind the opener and
\* the whitespace after it, c the position behind a "Step " prefix there
StepMatchBehind(s, p, b, c) ==
    IF c # 0 /\ At(s, c) \in Digits
    THEN StepMatch(s, p, TRUE, c, NumberEnd(s, PartEnd(s, c)))
    ELSE IF At(s, b) \in Digits
    THEN StepMatch(s, p, FALSE, b, NumberEnd(s, PartEnd(s, b)))
    ELSE None

StepMatchAt(s, p) ==
    IF CommentOpenerEnd(s, p) = 0 THEN None
    ELSE StepMatchBehind(s, p, SkipSet(s, CommentOpenerEnd(s, p), Whitespace),
                         StepWordEnd(s, SkipSet(s, CommentOpenerEnd(s, p), Whitespace)))

\* STEP_PATTERN.search(line): the leftmost match
STEP_PATTERN_search(s) ==
    IF \A p \in 1..Len(s) : StepMatchAt(s, p) = None THEN None
    ELSE StepMatchAt(s, CHOOSE p \in 1..Len(s) :
                            /\ StepMatchAt(s, p) # None
                            /\ \A q \in 1..(p - 1) : StepMatchAt(s, q) = None)

\* _CONTINUATION_RE.match(line): the group, None without a match
CONTINUATION_RE_match(s) ==
    IF ContinuationOpenerEnd(s, SkipSet(s, 1, Whitespace)) = 0 THEN None
    ELSE Some(GroupText(s, ContinuationOpenerEnd(s, SkipSet(s, 1, Whitespace))))

\* what the two patterns find on a line whose step match is m: the record of
\* the line that scan_steps goes by
LineMatched(s, m) ==
    IF m # None
    THEN [kind |-> IF \/ m.value.has_step_prefix
                      \/ m.value.has_trailing_dot
                      \/ "." \in Range(m.value.number_str)
                   THEN "step" ELSE "bare",
          number |-> SplitNumber(m.value.number_str),
          text |-> m.value.text,
          col_start |-> m.value.start,
          col_end |-> m.value.end]
    ELSE IF CONTINUATION_RE_match(s) # None /\ CONTINUATION_RE_match(s).value # <<>>
    THEN [kind |-> "comment", text |-> CONTINUATION_RE_match(s).value,
          col_end |-> Len(s)]
    ELSE [kind |-> "code", text |-> <<>>, col_end |-> Len(s)]

LineRecord(s) == LineMatched(s, STEP_PATTERN_search(s))

\* scan_steps on the lines of a text given by their characters
scan_steps_of_lines(lines) ==
    scan_steps([i \in 1..Len(lines) |-> LineRecord(lines[i])])

\* the tuple (version, value) of a per-document cache; origin is a history
\* field: the document texts the value was computed from
Entry(version, value, origin) ==
    [version |-> version, value |-> value, origin |-> origin]

\* SpecLensServer.__init__; provider.calls is the list of the keys asked of
\* provider.query since the current handler began
NewServer ==
    [provider |-> [calls |-> <<>>],
     fuzzy_threshold |-> DefaultThreshold,
     _url_pattern |-> None,
     _base_url_lookup |-> <<>>,
     _doc_urls |-> [u \in URIs |-> None],
     _query_cache |-> [k \in Keys |-> None],
     _algo_steps_cache |-> [a \in Anchors |-> None],
     _doc_validations |-> [u \in URIs |-> None],
     _doc_scopes |-> [u \in URIs |-> None],
     _doc_coverages |-> [u \in URIs |-> None]]

_ensure_pattern(s) ==
    IF s._url_pattern = None
    THEN [s EXCEPT !._url_pattern = Some(build_url_pattern(spec_urls)),
                   !._base_url_lookup = build_spec_lookup(spec_urls)]
    ELSE s

\* CacheHit that never finds an entry
CacheMiss(cached, version) == FALSE

\* CacheHit without the comparison of the versions
CacheHitAnyVersion(cached, version) == cached # None

\* cached and cached[0] == version (lines 87, 119, 179)
CacheHit(cached, version) == cached # None /\ cached.version = version

\* version is an integer here, which version or 0 leaves as it is
_scan_doc(s, uri, text, version) ==
    LET s1 == _ensure_pattern(s)
        cached == s1._doc_urls[uri]
    IN  IF CacheHit(cached, version)
        THEN [s |-> s1, value |-> cached.value, origin |-> cached.origin]
        ELSE LET matches == scan_document(text, s1._url_pattern.value,
                                          s1._base_url_lookup)
             IN  [s |-> [s1 EXCEPT !._doc_urls[uri] = Entry(version, matches, {text})],
                  value |-> matches, origin |-> {text}]

\* provider.query(key): the section, or None when the query raises
ProviderQuery(key) == IF key \in DOMAIN SpecData THEN Some(SpecData[key]) ELSE None

\* _query_spec without lines 96-97: the provider is asked on every lookup
_query_spec_uncached(s, spec, anchor) ==
    IF ProviderQuery(<<spec, anchor>>) # None
    THEN [s |-> [s EXCEPT !.provider.calls = Append(@, <<spec, anchor>>),
                          !._query_cache[<<spec, anchor>>] =
                              ProviderQuery(<<spec, anchor>>)],
          value |-> ProviderQuery(<<spec, anchor>>)]
    ELSE [s |-> [s EXCEPT !.provider.calls = Append(@, <<spec, anchor>>)],
          value |-> None]

\* the value is Some(result), or None for a failed query
_query_spec(s, spec, anchor) ==
    LET key == <<spec, anchor>>
    IN  IF s._query_cache[key] # None
        THEN [s |-> s, value |-> s._query_cache[key]]
        ELSE LET asked == [s EXCEPT !.provider.calls = Append(@, key)]
                 result == ProviderQuery(key)
             IN  IF result # None
                 THEN [s |-> [asked EXCEPT !._query_cache[key] = result],
                       value |-> result]
                 ELSE [s |-> asked, value |-> None]

\* lines 111-113; the value is the list of steps, empty for None
StoreAlgoSteps(s, anchor, steps) ==
    [s |-> IF steps # <<>> THEN [s EXCEPT !._algo_steps_cache[anchor] = Some(steps)]
           ELSE s,
     value |-> steps]

_get_algo_steps(s, anchor, content) ==
    IF s._algo_steps_cache[anchor] # None
    THEN [s |-> s, value |-> s._algo_steps_cache[anchor].value]
    ELSE StoreAlgoSteps(s, anchor, parse_steps(content))

\* lines 149-168: the validations of the step comments of one scope
ValidateSteps(steps_in_scope, algo_steps, anchor, threshold) ==
    [k \in 1..Len(steps_in_scope) |->
        LET step_comment == steps_in_scope[k]
            spec_step == find_step(algo_steps, step_comment.number)
        IN  IF spec_step = None
            THEN StepValidation(step_comment, NOT_FOUND, <<>>, anchor)
            ELSE StepValidation(step_comment,
                     classify_match(step_comment.text, spec_step.text, threshold),
                     spec_step.text, anchor)]

RECURSIVE ValidateScopes(_, _, _, _)

\* lines 146-168 of the loop: g is what _get_algo_steps gave for scope i
ValidateResolved(g, scopes, i, validations) ==
    IF g.value = <<>> THEN ValidateScopes(g.s, scopes, i + 1, validations)
    ELSE ValidateScopes(g.s, scopes, i + 1,
             validations \o ValidateSteps(scopes[i].steps, g.value,
                                          scopes[i].url.anchor, g.s.fuzzy_threshold))

\* lines 138-145 of the loop: q is what _query_spec gave for scope i
ValidateQueried(q, scopes, i, validations) ==
    IF q.value = None THEN ValidateScopes(q.s, scopes, i + 1, validations)
    ELSE IF q.value.value.content = <<>>
         THEN ValidateScopes(q.s, scopes, i + 1, validations)
    ELSE ValidateResolved(
             _get_algo_steps(q.s, scopes[i].url.anchor, q.value.value.content),
             scopes, i, validations)

\* lines 133-168: the loop over the scopes
ValidateScopes(s, scopes, i, validations) ==
    IF i > Len(scopes) THEN [s |-> s, value |-> validations]
    ELSE IF scopes[i].steps = <<>> THEN ValidateScopes(s, scopes, i + 1, validations)
    ELSE ValidateQueried(_query_spec(s, scopes[i].url.spec, scopes[i].url.anchor),
                         scopes, i, validations)

\* lines 170-171: r is what the loop over the scopes gave
StoreValidations(r, uri, version, origin) ==
    [s |-> [r.s EXCEPT !._doc_validations[uri] = Entry(version, r.value, origin)],
     value |-> r.value, origin |-> origin]

\* ValidateScanned without line 126: the return for a text without citations
\* or without step comments leaves the scopes of the document as they are
ValidateScannedKeepingScopes(sc, step_comments, uri, text, version) ==
    IF sc.value = <<>> \/ step_comments = <<>>
    THEN [s |-> [sc.s EXCEPT !._doc_validations[uri] =
                                 Entry(version, <<>>, sc.origin \cup {text})],
          value |-> <<>>, origin |-> sc.origin \cup {text}]
    ELSE StoreValidations(
             ValidateScopes([sc.s EXCEPT !._doc_scopes[uri] =
                                             Entry(version,
                                                   build_scopes(sc.value, step_comments),
                                                   sc.origin \cup {text})],
                            build_scopes(sc.value, step_comments), 1, <<>>),
             uri, version, sc.origin \cup {text})

\* lines 122-171: sc is what _scan_doc gave; the document texts the validations
\* come from are the text scanned for steps and those of the URL matches
ValidateScanned(sc, step_comments, uri, text, version) ==
    LET origin == sc.origin \cup {text}
        scopes == build_scopes(sc.value, step_comments)
    IN  IF sc.value = <<>> \/ step_comments = <<>>
        THEN [s |-> [sc.s EXCEPT !._doc_validations[uri] = Entry(version, <<>>, origin),
                                 !._doc_scopes[uri] = Entry(version, <<>>, origin)],
              value |-> <<>>, origin |-> origin]
        ELSE StoreValidations(
                 ValidateScopes([sc.s EXCEPT !._doc_scopes[uri] =
                                                 Entry(version, scopes, origin)],
                                scopes, 1, <<>>),
                 uri, version, origin)

_validate_doc(s, uri, text, version) ==
    IF CacheHit(s._doc_validations[uri], version)
    THEN [s |-> s, value |-> s._doc_validations[uri].value,
          origin |-> s._doc_validations[uri].origin]
    ELSE ValidateScanned(_scan_doc(s, uri, text, version), scan_steps(text),
                         uri, text, version)

\* lines 196-210: the loop over the scopes; a result is the pair [url, cov]
\* CoverScopes without the filter of lines 205-207: every scope is covered
\* from all the validations of the document
RECURSIVE CoverScopesUnfiltered(_, _, _, _)
CoverScopesUnfiltered(s, scopes, validations, i) ==
    IF i > Len(scopes) THEN <<>>
    ELSE (IF scopes[i].steps = <<>> \/ s._algo_steps_cache[scopes[i].url.anchor] = None
          THEN <<>>
          ELSE <<[url |-> scopes[i].url,
                  cov |-> compute_coverage(validations,
                                           s._algo_steps_cache[scopes[i].url.anchor].value,
                                           scopes[i].url.anchor)]>>)
             \o CoverScopesUnfiltered(s, scopes, validations, i + 1)

RECURSIVE CoverScopes(_, _, _, _)
CoverScopes(s, scopes, validations, i) ==
    IF i > Len(scopes) THEN <<>>
    ELSE LET url_match == scopes[i].url
             steps_in_scope == scopes[i].steps
             algo_steps == s._algo_steps_cache[url_match.anchor]
             scope_lines == {steps_in_scope[k].line : k \in 1..Len(steps_in_scope)}
             scope_vals == SelectSeq(validations, LAMBDA v : v.step.line \in scope_lines)
         IN  (IF steps_in_scope = <<>> \/ algo_steps = None THEN <<>>
              ELSE <<[url |-> url_match,
                      cov |-> compute_coverage(scope_vals, algo_steps.value,
                                               url_match.anchor)]>>)
                 \o CoverScopes(s, scopes, validations, i + 1)

\* lines 185-186, 191-192, 212-213
StoreCoverages(s, uri, version, results, origin) ==
    [s |-> [s EXCEPT !._doc_coverages[uri] = Entry(version, results, origin)],
     value |-> results, origin |-> origin]

\* lines 184-213: v is what _validate_doc gave
CoverValidated(v, uri, version) ==
    IF v.value = <<>> THEN StoreCoverages(v.s, uri, version, <<>>, v.origin)
    ELSE IF v.s._doc_scopes[uri] = None \/ v.s._doc_scopes[uri].version # version
         THEN StoreCoverages(v.s, uri, version, <<>>, v.origin)
    ELSE StoreCoverages(v.s, uri, version,
                        CoverScopes(v.s, v.s._doc_scopes[uri].value, v.value, 1),
                        v.origin \cup v.s._doc_scopes[uri].origin)

_coverage_doc(s, uri, text, version) ==
    IF CacheHit(s._doc_coverages[uri], version)
    THEN [s |-> s, value |-> s._doc_coverages[uri].value,
          origin |-> s._doc_coverages[uri].origin]
    ELSE CoverValidated(_validate_doc(s, uri, text, version), uri, version)

(***************************************************************************)
(* server.py: what the handlers render from the validations.  A label      *)
(* ".".join(number) stands for its number path, a message for its parts.   *)
(***************************************************************************)
\* DiagnosticRange that ends on the first line of the comment
DiagnosticRangeFirstLine(step) ==
    [start |-> [line |-> step.line, character |-> step.col_start],
     end |-> [line |-> step.line, character |-> step.col_end]]

\* lines 233-238
DiagnosticRange(step) ==
    [start |-> [line |-> step.line, character |-> step.col_start],
     end |-> [line |-> IF step.end_line # None THEN step.end_line.line ELSE step.line,
              character |-> step.col_end]]

\* lines 228-252
Diagnostic(uri, v) ==
    [range |-> DiagnosticRange(v.step),
     severity |-> "Warning",
     source |-> "webspec-lens",
     message |-> IF v.result = NOT_FOUND
                 THEN [step |-> v.step.number, says |-> "not found in algorithm",
                       algo_name |-> v.algo_name]
                 ELSE [step |-> v.step.number, says |-> "text differs from spec"],
     related_information |->
         IF v.spec_text # <<>>
         THEN <<[uri |-> uri, range |-> DiagnosticRange(v.step),
                 expected |-> v.spec_text]>>
         ELSE <<>>]

\* Diagnostics that skips the EXACT validations only
RECURSIVE DiagnosticsAlsoFuzzy(_, _)
DiagnosticsAlsoFuzzy(uri, validations) ==
    IF validations = <<>> THEN <<>>
    ELSE (IF Head(validations).result = EXACT THEN <<>>
          ELSE <<Diagnostic(uri, Head(validations))>>)
             \o DiagnosticsAlsoFuzzy(uri, Tail(validations))

\* lines 225-253
RECURSIVE Diagnostics(_, _)
Diagnostics(uri, validations) ==
    IF validations = <<>> THEN <<>>
    ELSE (IF Head(validations).result \in {EXACT, FUZZY} THEN <<>>
          ELSE <<Diagnostic(uri, Head(validations))>>)
             \o Diagnostics(uri, Tail(validations))

\* lines 224-256: v is what _validate_doc gave; the value is the list given to
\* text_document_publish_diagnostics
PublishValidated(v, uri) ==
    [s |-> v.s, value |-> Diagnostics(uri, v.value), origin |-> v.origin]

_publish_diagnostics(s, uri, text, version) ==
    PublishValidated(_validate_doc(s, uri, text, version), uri)

\* hover.py: the parts of the markdown, which "\n\n" joins
build_hover_content(query_result) ==
    LET heading == IF query_result.title # "" THEN query_result.title
                   ELSE query_result.anchor
    IN  (IF heading # "" THEN <<[heading |-> heading]>> ELSE <<>>)
        \o (IF query_result.type # ""
            THEN <<[type |-> query_result.type, spec |-> query_result.spec,
                    anchor |-> query_result.anchor]>>
            ELSE <<>>)
        \o (IF query_result.content # <<>> THEN <<[content |-> query_result.content]>>
            ELSE <<>>)

\* lines 341-353, and 395-421: the markdown about a validated step
StepMarkdown(v) ==
    [step |-> v.step.number,
     says |-> IF v.result = EXACT THEN "exact match"
              ELSE IF v.result = FUZZY THEN "fuzzy match"
              ELSE IF v.result = NOT_FOUND THEN "not found in"
              ELSE "text differs from spec",
     more |-> IF v.result = NOT_FOUND THEN Some([algo_name |-> v.algo_name])
              ELSE IF v.result = FUZZY /\ v.spec_text # <<>>
                   THEN Some([Spec |-> v.spec_text])
              ELSE IF v.result = MISMATCH /\ v.spec_text # <<>>
                   THEN Some([Expected |-> v.spec_text])
              ELSE None]

\* lines 360-366
HoverRange(step) ==
    [start |-> [line |-> step.line, character |-> step.col_start],
     end |-> [line |-> IF step.end_line # None THEN step.end_line.line ELSE step.line,
              character |-> step.col_end]]

\* lines 335-367: the hover of the first validation under the cursor
RECURSIVE StepHover(_, _)
StepHover(validations, pos) ==
    IF validations = <<>> THEN None
    ELSE LET v == Head(validations)
         IN  IF v.step.line # pos.line THEN StepHover(Tail(validations), pos)
             ELSE IF pos.character < v.step.col_start \/ pos.character > v.step.col_end
                  THEN StepHover(Tail(validations), pos)
             ELSE Some([contents |-> StepMarkdown(v), range |-> HoverRange(v.step)])

\* lines 322-331
UrlHover(match, result) ==
    Some([contents |-> build_hover_content(result),
          range |-> [start |-> [line |-> match.line, character |-> match.col_start],
                     end |-> [line |-> match.line, character |-> match.col_end]]])

\* lines 334-369: v is what _validate_doc gave
HoverStep(v, pos, origin) ==
    [s |-> v.s, value |-> StepHover(v.value, pos), origin |-> origin \cup v.origin]

\* lines 319-369: q is what _query_spec gave for the match under the cursor
HoverUrl(sc, match, q, uri, doc, pos) ==
    IF q.value # None
    THEN [s |-> q.s, value |-> UrlHover(match, q.value.value), origin |-> sc.origin]
    ELSE HoverStep(_validate_doc(q.s, uri, doc.source, doc.version), pos, sc.origin)

\* lines 317-369: sc is what _scan_doc gave
HoverScanned(sc, uri, doc, pos) ==
    LET match == find_url_at_position(sc.value, pos.line, pos.character)
    IN  IF match # None
        THEN HoverUrl(sc, match, _query_spec(sc.s, match.spec, match.anchor),
                      uri, doc, pos)
        ELSE HoverStep(_validate_doc(sc.s, uri, doc.source, doc.version), pos, sc.origin)

\* lines 313-369
Hover(s, uri, doc, pos) ==
    HoverScanned(_scan_doc(s, uri, doc.source, doc.version), uri, doc, pos)

\* the hint put behind the first line of the step comment
InlayHintFirstLine(v) ==
    [position |-> [line |-> v.step.line, character |-> v.step.col_end],
     label |-> IF v.result \in {EXACT, FUZZY} THEN "check" ELSE "warning",
     kind |-> IF v.result \in {EXACT, FUZZY} THEN "Type" ELSE "Parameter",
     tooltip |-> IF v.result = FUZZY /\ v.spec_text = <<>> THEN None
                 ELSE StepMarkdown(v),
     padding_left |-> TRUE]

\* lines 389-432: the hint of one validation
InlayHint(v) ==
    [position |-> [line |-> IF v.step.end_line # None THEN v.step.end_line.line
                            ELSE v.step.line,
                   character |-> v.step.col_end],
     label |-> IF v.result \in {EXACT, FUZZY} THEN "check" ELSE "warning",
     kind |-> IF v.result \in {EXACT, FUZZY} THEN "Type" ELSE "Parameter",
     tooltip |-> IF v.result = FUZZY /\ v.spec_text = <<>> THEN None
                 ELSE StepMarkdown(v),
     padding_left |-> TRUE]

\* lines 383-432
RECURSIVE InlayHints(_, _, _)
InlayHints(validations, range_start, range_end) ==
    IF validations = <<>> THEN <<>>
    ELSE (IF Head(validations).step.line < range_start
             \/ Head(validations).step.line > range_end
          THEN <<>> ELSE <<InlayHint(Head(validations))>>)
             \o InlayHints(Tail(validations), range_start, range_end)

\* hints if hints else None
NoneIfEmpty(list) == IF list # <<>> THEN Some(list) ELSE None

\* lines 376-434: v is what _validate_doc gave
InlayHinted(v, range) ==
    [s |-> v.s, value |-> NoneIfEmpty(InlayHints(v.value, range.start, range.end)),
     origin |-> v.origin]

\* CoverageResult.summary: the parts that " | " joins
summary(cov) ==
    <<[anchor |-> cov.anchor, implemented_count |-> implemented_count(cov),
       total_steps |-> cov.total_steps]>>
    \o (IF cov.warnings # 0
        THEN <<[warnings |-> cov.warnings, plural |-> cov.warnings # 1]>> ELSE <<>>)
    \o (IF cov.reordered # 0 THEN <<[reordered |-> cov.reordered]>> ELSE <<>>)

\* line 446, ".".join(str(n) for n in s): the numbers with a "." between
RECURSIVE DottedLabel(_)
DottedLabel(number) ==
    IF Len(number) <= 1 THEN number
    ELSE <<Head(number), ".">> \o DottedLabel(Tail(number))

\* lines 445-461
CodeLenses(coverages) ==
    [i \in 1..Len(coverages) |->
        [range |-> [start |-> [line |-> coverages[i].url.line, character |-> 0],
                    end |-> [line |-> coverages[i].url.line, character |-> 0]],
         title |-> summary(coverages[i].cov),
         command |-> "webspecLens.showCoverage",
         arguments |-> <<coverages[i].cov.anchor, coverages[i].cov.total_steps,
                         [k \in 1..Len(coverages[i].cov.missing) |->
                             DottedLabel(coverages[i].cov.missing[k])]>>]]

\* lines 441-462: c is what _coverage_doc gave
CodeLensed(c) ==
    [s |-> c.s, value |-> NoneIfEmpty(CodeLenses(c.value)), origin |-> c.origin]

(***************************************************************************)
(* The state after construction, and the debounce tasks.  A task is at its *)
(* sleep until sleep_done, and resumes behind it unless it was cancelled;  *)
(* cancel_requested is a history field: a handler called cancel() on the   *)
(* task while it was pending.                                              *)
(***************************************************************************)
Event(handler, uri, response, published, origin, task) ==
    [handler |-> handler, uri |-> uri, response |-> response,
     published |-> published, origin |-> origin, task |-> task]

Created ==
    /\ server = NewServer
    /\ workspace = [u \in URIs |-> None]
    /\ _debounce_tasks = [u \in URIs |-> 0]
    /\ tasks = <<>>
    /\ initialized = FALSE
    /\ event = Event("none", "", None, None, {}, 0)

\* asyncio.create_task(_debounced_analysis(uri))
create_task(uri) ==
    [uri |-> uri, state |-> "PENDING", sleep_done |-> FALSE, cancel_requested |-> FALSE]

Pending(task) == task.state = "PENDING"

\* Cancel without effect
CancelIgnored(task) == task

\* old_task.cancel(): CancelledError is raised in a pending task, at its sleep
\* or at its resumption; a finished task stays as it is
Cancel(task) == IF Pending(task) THEN [task EXCEPT !.state = "CANCELLED"] ELSE task

\* cancel() called on the pending tasks of every uri
CancelEvery(uri) ==
    [t \in 1..Len(tasks) |->
        Cancel([tasks[t] EXCEPT !.cancel_requested = @ \/ Pending(tasks[t])])]

\* _debounce_tasks.pop(uri, None) and old_task.cancel() (lines 287-289, 297-299)
CancelRegistered(uri) ==
    IF _debounce_tasks[uri] # 0
    THEN [tasks EXCEPT ![_debounce_tasks[uri]] =
                           Cancel([@ EXCEPT !.cancel_requested =
                                                @ \/ Pending(tasks[_debounce_tasks[uri]])])]
    ELSE tasks

\* the server as a step finds it: provider.calls holds the queries of one step
Begin == [server EXCEPT !.provider.calls = <<>>]

(***************************************************************************)
(* SpecMatch: classify_match applied to every comment text and spec text   *)
(* within the bounds, under the default and one lenient threshold.         *)
(***************************************************************************)
MaxCommentLen == 3
MaxSpecLen == 2

CommentAlphabet == {"a", "B", " ", ".", "*"}
SpecAlphabet == {"a", "b", ".", "*"}

LenientThreshold == 50

\* the comment text and the spec text of the worked example, and the spec
\* text without its quotes
ExampleComment ==
    <<"A", "s", "s", "e", "r", "t", ":", " ", "u", "s", "e", "r", "I", "n",
      "v", "o", "l", "v", "e", "m", "e", "n", "t", " ", "i", "s", " ", "b",
      "r", "o", "w", "s", "e", "r", " ", "U", "I">>

ExampleSpec ==
    <<"A", "s", "s", "e", "r", "t", ":", " ", "*", "u", "s", "e", "r", "I",
      "n", "v", "o", "l", "v", "e", "m", "e", "n", "t", "*", " ", "i", "s",
      " ", "\"", "b", "r", "o", "w", "s", "e", "r", " ", "U", "I", "\"",
      ".">>

ExampleSpecUnquoted ==
    <<"A", "s", "s", "e", "r", "t", ":", " ", "*", "u", "s", "e", "r", "I",
      "n", "v", "o", "l", "v", "e", "m", "e", "n", "t", "*", " ", "i", "s",
      " ", "b", "r", "o", "w", "s", "e", "r", " ", "U", "I", ".">>

MatchInit ==
    /\ args \in [fn : {"classify_match"},
                 comment_text : SeqsUpTo(CommentAlphabet, MaxCommentLen),
                 spec_text : SeqsUpTo(SpecAlphabet, MaxSpecLen),
                 threshold : {DefaultThreshold, LenientThreshold}]
                 \cup [fn : {"classify_match"},
                       comment_text : {ExampleComment},
                       spec_text : {ExampleSpec, ExampleSpecUnquoted},
                       threshold : {DefaultThreshold, LenientThreshold}]
    /\ ret = NoResult
    /\ Created

ClassifyCall ==
    /\ args.fn = "classify_match"
    /\ ret = NoResult
    /\ ret' = Result(classify_match(args.comment_text, args.spec_text, args.threshold))
    /\ UNCHANGED <<args, serverVars>>

MatchNext == ClassifyCall

SpecMatch == MatchInit /\ [][MatchNext]_vars

\* the two normalized texts of the call
NormComment == normalize_text(args.comment_text)
NormSpec == normalize_text(args.spec_text)

Classified == args.fn = "classify_match" /\ ret.done

Outcome == ret.value

\* p is s[1..n] for some n
IsPrefixOf(p, s) == \E n \in 0..Len(s) : p = SubSeq(s, 1, n)

\* p is s[i..j] for some i, j
IsSubstringOf(p, s) == \E i \in 1..(Len(s) + 1) : \E j \in (i - 1)..Len(s) : p = SubSeq(s, i, j)

OneIsPrefix == IsPrefixOf(NormComment, NormSpec) \/ IsPrefixOf(NormSpec, NormComment)
OneIsSubstring == IsSubstringOf(NormComment, NormSpec) \/ IsSubstringOf(NormSpec, NormComment)
ScoreReached ==
    LET jw == jaro_winkler(NormComment, NormSpec)
    IN  100 * jw[1] >= args.threshold * jw[2]
BlankComment == \A i \in DOMAIN args.comment_text : args.comment_text[i] \in Whitespace

\* the outcome of the first applicable rule of the six rules as the claim lists them
SixRuleOutcome ==
    IF BlankComment THEN EXACT
    ELSE IF NormComment = NormSpec THEN EXACT
    ELSE IF OneIsPrefix THEN FUZZY
    ELSE IF OneIsSubstring THEN FUZZY
    ELSE IF ScoreReached THEN FUZZY
    ELSE MISMATCH

\* C7 as stated: classify_match returns the outcome of the first applicable
\* rule among blank / equal / prefix / substring / similarity / otherwise; so a
\* non-empty normalized comment against an empty normalized spec text is FUZZY.
C7_SixRules == Classified => Outcome = SixRuleOutcome

\* C7 amended: a rule stands between "blank" and "equal": when either
\* normalized text is empty the outcome is EXACT if the normalized comment is
\* empty and MISMATCH otherwise; the other rules follow in the stated order.
C7_SevenRules ==
    Classified =>
        /\ BlankComment => Outcome = EXACT
        /\ NormComment = <<>> => Outcome = EXACT
        /\ (NormComment # <<>> /\ NormSpec = <<>>) => Outcome = MISMATCH
        /\ (NormComment # <<>> /\ NormSpec # <<>>) => Outcome = SixRuleOutcome

\* C7 witness: a FUZZY outcome reached by the similarity rule alone
C7_Witness ==
    /\ Classified /\ Outcome = FUZZY
    /\ ~OneIsPrefix /\ ~OneIsSubstring /\ ScoreReached

\* C8 as stated: EXACT implies equal normalized texts, and a blank comment is
\* EXACT against every spec text.
C8_ExactIffEqual ==
    Classified =>
        /\ Outcome = EXACT => NormComment = NormSpec
        /\ BlankComment => Outcome = EXACT

\* C8 amended: EXACT implies that the normalized texts are equal or the
\* normalized comment is empty; a blank comment is EXACT against every spec text.
C8_ExactEqualOrEmpty ==
    Classified =>
        /\ Outcome = EXACT => (NormComment = NormSpec \/ NormComment = <<>>)
        /\ BlankComment => Outcome = EXACT

\* C8 witness: EXACT for two different raw texts whose normalized texts are
\* equal and not empty
C8_Witness ==
    /\ Classified /\ Outcome = EXACT
    /\ args.comment_text # args.spec_text
    /\ NormComment = NormSpec /\ NormComment # <<>>

(***************************************************************************)
(* SpecScopes: build_scopes applied to every list of URL citations and     *)
(* every list of step comments within the bounds, in any input order.      *)
(* The col_start of a record is its position in the input list.            *)
(***************************************************************************)
MaxLine == 2
MaxUrls == 2
MaxSteps == 2

UrlsOnLines(lines) ==
    [i \in 1..Len(lines) |-> UrlMatch(lines[i], i, i + 1, "HTML", <<"a">>)]

StepsOnLines(lines) ==
    [i \in 1..Len(lines) |-> StepComment(lines[i], i, i + 1, <<i>>, <<>>, None)]

ScopesInit ==
    /\ \E ul \in SeqsUpTo(0..MaxLine, MaxUrls), sl \in SeqsUpTo(0..MaxLine, MaxSteps) :
          args = [fn |-> "build_scopes",
                  url_matches |-> UrlsOnLines(ul),
                  step_comments |-> StepsOnLines(sl)]
    /\ ret = NoResult
    /\ Created

BuildScopesCall ==
    /\ args.fn = "build_scopes"
    /\ ret = NoResult
    /\ ret' = Result(build_scopes(args.url_matches, args.step_comments))
    /\ UNCHANGED <<args, serverVars>>

ScopesNext == BuildScopesCall

SpecScopes == ScopesInit /\ [][ScopesNext]_vars

Scoped == args.fn = "build_scopes" /\ ret.done

\* u comes later than w: on a later line, or on the same line later in the input
LaterUrl(u, w) == u.line > w.line \/ (u.line = w.line /\ u.col_start > w.col_start)

\* the URLs a step may belong to, and the latest of them
UrlsUpTo(step) == {u \in Range(args.url_matches) : u.line <= step.line}

IsLatestUrl(u, step) ==
    u \in UrlsUpTo(step) /\ \A w \in UrlsUpTo(step) : w = u \/ LaterUrl(u, w)

\* the places <<scope, position>> where a step occurs in the output
PlacesOf(step) ==
    {pl \in (1..Len(ret.value)) \X (1..MaxSteps) :
        pl[2] <= Len(ret.value[pl[1]].steps) /\ ret.value[pl[1]].steps[pl[2]] = step}

\* C5: build_scopes assigns every step comment to exactly the latest UrlMatch
\* whose line is <= the step's line and to no scope when there is none; so a
\* step's line is >= its URL's line with no other URL strictly between, a step
\* occurs in at most one scope, the output has one entry per UrlMatch, and the
\* steps of a scope are in line order.
C5_NearestPrecedingUrl ==
    Scoped =>
        /\ Len(ret.value) = Len(args.url_matches)
        /\ \A u \in Range(args.url_matches) :
              Cardinality({i \in 1..Len(ret.value) : ret.value[i].url = u}) = 1
        /\ \A step \in Range(args.step_comments) :
              IF UrlsUpTo(step) = {} THEN PlacesOf(step) = {}
              ELSE /\ Cardinality(PlacesOf(step)) = 1
                   /\ \A pl \in PlacesOf(step) : IsLatestUrl(ret.value[pl[1]].url, step)
        /\ \A i \in 1..Len(ret.value) :
              LET sc == ret.value[i]
              IN  /\ \A k \in 1..Len(sc.steps) :
                        /\ sc.steps[k].line >= sc.url.line
                        /\ sc.steps[k] \in Range(args.step_comments)
                        /\ ~\E w \in Range(args.url_matches) :
                              sc.url.line < w.line /\ w.line < sc.steps[k].line
                  /\ \A k \in 1..(Len(sc.steps) - 1) :
                        sc.steps[k].line <= sc.steps[k + 1].line

\* C5 witness: two URLs given out of line order, a step before the first URL
\* (orphaned) and a step on the line of the later URL, assigned to it
C5_Witness ==
    /\ Scoped
    /\ Len(args.url_matches) = 2
    /\ args.url_matches[1].line > args.url_matches[2].line
    /\ \E step \in Range(args.step_comments) : UrlsUpTo(step) = {}
    /\ \E i \in 1..Len(ret.value) :
          /\ ret.value[i].url = args.url_matches[1]
          /\ ret.value[i].steps # <<>>
          /\ ret.value[i].steps[1].line = ret.value[i].url.line

(***************************************************************************)
(* SpecCov: compute_coverage on every algorithm tree and every list of     *)
(* validations within the bounds; FeedValidation calls it again with one   *)
(* more validation at the end of the list.                                 *)
(***************************************************************************)
MaxValidations == 2
MaxAlgoSteps == 2
MaxIndent == 1

NumberPool == {<<1>>, <<2>>, <<1, 1>>, <<3>>}

RawSteps == SeqsUpTo([indent : 0..MaxIndent, text : {<<"a">>}], MaxAlgoSteps) \ {<<>>}

ValidationPool ==
    {StepValidation(StepComment(0, 0, 10, n, <<>>, None), r, <<>>, <<"t">>) :
        n \in NumberPool, r \in MatchResult}

CovInit ==
    /\ \E raw \in RawSteps :
          args = [fn |-> "compute_coverage",
                  validations |-> <<>>,
                  algo_steps |-> parse_steps(raw)]
    /\ ret = NoResult
    /\ Created

ComputeCoverageCall ==
    /\ args.fn = "compute_coverage"
    /\ ~ret.done
    /\ ret' = Result(compute_coverage(args.validations, args.algo_steps, <<"t">>))
    /\ UNCHANGED <<args, serverVars>>

FeedValidation ==
    /\ args.fn = "compute_coverage"
    /\ ret.done
    /\ Len(args.validations) < MaxValidations
    /\ \E v \in ValidationPool :
          /\ args' = [args EXCEPT !.validations = Append(@, v)]
          /\ ret' = Result(compute_coverage(args'.validations, args.algo_steps, <<"t">>))
    /\ UNCHANGED serverVars

CovNext == ComputeCoverageCall \/ FeedValidation

SpecCov == CovInit /\ [][CovNext]_vars

Covered == args.fn = "compute_coverage" /\ ret.done

\* the number paths of flatten(tree)
TreePaths == {s.number : s \in Range(flatten_steps(args.algo_steps))}

Partitioned ==
    /\ Range(ret.value.implemented) \cup Range(ret.value.missing) = TreePaths
    /\ Range(ret.value.implemented) \cap Range(ret.value.missing) = {}
    /\ implemented_count(ret.value) + Len(ret.value.missing) = ret.value.total_steps

\* every validation that is not NOT_FOUND carries a number path of the tree
\* (what the analyzer produces: an unresolved number is classified NOT_FOUND)
ResolvedOnly ==
    \A i \in 1..Len(args.validations) :
        args.validations[i].result # NOT_FOUND
            => args.validations[i].step.number \in TreePaths

\* C4 as stated: for any validations list and any parsed tree, implemented and
\* missing partition the number paths of flatten(tree).
C4_PartitionAnyList == Covered => Partitioned

\* C4 amended: the partition holds for every validations list in which each
\* EXACT, FUZZY or MISMATCH validation carries a number path of flatten(tree).
C4_PartitionResolved == (Covered /\ ResolvedOnly) => Partitioned

\* C4 witness: a resolved list with an implemented step, a missing step and a
\* NOT_FOUND validation
C4_Witness ==
    /\ Covered /\ ResolvedOnly
    /\ ret.value.implemented # <<>> /\ ret.value.missing # <<>>
    /\ \E i \in 1..Len(args.validations) : args.validations[i].result = NOT_FOUND

Implementing == {EXACT, FUZZY, MISMATCH}

SameClass(r1, r2) == (r1 \in Implementing) <=> (r2 \in Implementing)

\* the step just fed repeats the number of a validation of the same result class
FedDuplicate ==
    /\ Covered /\ ret'.done
    /\ Len(args'.validations) = Len(args.validations) + 1
    /\ SubSeq(args'.validations, 1, Len(args.validations)) = args.validations
    /\ LET v == args'.validations[Len(args'.validations)]
       IN  \E i \in 1..Len(args.validations) :
              /\ args.validations[i].step.number = v.step.number
              /\ SameClass(args.validations[i].result, v.result)

NoPathTwice(cov) ==
    \A i, j \in 1..Len(cov.implemented) :
        cov.implemented[i] = cov.implemented[j] => i = j

\* C9: a further validation with the step number of one already present (same
\* result class) leaves implemented and implemented_count unchanged, and
\* implemented never holds the same number path twice.
C9_DuplicateSuppression ==
    /\ [](Covered => NoPathTwice(ret.value))
    /\ [][FedDuplicate => /\ ret'.value.implemented = ret.value.implemented
                          /\ implemented_count(ret'.value) = implemented_count(ret.value)]_vars

\* C9 witness: the same implemented step fed twice, counted once
C9_Witness ==
    /\ Covered
    /\ Len(args.validations) = 2
    /\ args.validations[1].step.number = args.validations[2].step.number
    /\ args.validations[1].result \in Implementing
    /\ args.validations[2].result \in Implementing
    /\ implemented_count(ret.value) = 1

\* C10: a number is in implemented iff some validation with that number is
\* EXACT, FUZZY or MISMATCH (a NOT_FOUND validation adds nothing), and warnings
\* counts the validations, duplicates included, that are MISMATCH or NOT_FOUND.
C10_ImplementedAndWarnings ==
    Covered =>
        /\ \A n \in NumberPool :
              n \in Range(ret.value.implemented)
                  <=> \E i \in 1..Len(args.validations) :
                         /\ args.validations[i].step.number = n
                         /\ args.validations[i].result \in Implementing
        /\ Range(ret.value.implemented) \subseteq NumberPool
        /\ ret.value.warnings =
              Cardinality({i \in 1..Len(args.validations) :
                              args.validations[i].result \in {MISMATCH, NOT_FOUND}})

\* C10 witness: a MISMATCH that is implemented and a NOT_FOUND that is not,
\* two warnings
C10_Witness ==
    /\ Covered
    /\ ret.value.warnings = 2
    /\ \E i, j \in 1..Len(args.validations) :
          /\ args.validations[i].result = MISMATCH
          /\ args.validations[i].step.number \in Range(ret.value.implemented)
          /\ args.validations[j].result = NOT_FOUND
          /\ args.validations[j].step.number \notin Range(ret.value.implemented)

(***************************************************************************)
(* SpecSteps: parse_steps on every content within the bounds, lines with   *)
(* any digit, at any indentation, with continuation lines and blank lines; *)
(* find_step on every tree of up to MaxTreeSteps steps with every number   *)
(* path within the bounds.                                                 *)
(***************************************************************************)
MaxLines == 3
MaxTreeSteps == 3
MaxPathLen == 3
MaxIndex == 3

LinePool ==
    {StepSource(spaces, num, <<"a">>) : spaces \in {0, 4, 9}, num \in {1, 7}}
    \cup {TextSource(8, <<"b">>), TextSource(0, <<"b">>), TextSource(8, <<">">>),
          BlankSource}

TreePool ==
    {parse_steps(raw) :
        raw \in SeqsUpTo([indent : 0..2, text : {<<"a">>}], MaxTreeSteps)}

StepsInit ==
    /\ args \in [fn : {"parse_steps"}, content : SeqsUpTo(LinePool, MaxLines)]
                \cup [fn : {"find_step"}, steps : TreePool,
                      number : SeqsUpTo(0..MaxIndex, MaxPathLen)]
    /\ ret = NoResult
    /\ Created

ParseStepsCall ==
    /\ args.fn = "parse_steps"
    /\ ~ret.done
    /\ ret' = Result(parse_steps(CollectRawSteps(args.content, 1)))
    /\ UNCHANGED <<args, serverVars>>

FindStepCall ==
    /\ args.fn = "find_step"
    /\ ~ret.done
    /\ ret' = Result(find_step(args.steps, args.number))
    /\ UNCHANGED <<args, serverVars>>

StepsNext == ParseStepsCall \/ FindStepCall

SpecSteps == StepsInit /\ [][StepsNext]_vars

Parsed == args.fn = "parse_steps" /\ ret.done

\* p comes before q in depth-first pre-order: it is a proper prefix of q or
\* has the smaller index where they first differ
PreOrderBefore(p, q) ==
    \/ Len(p) < Len(q) /\ SubSeq(q, 1, Len(p)) = p
    \/ \E k \in 1..Min2(Len(p), Len(q)) :
          /\ SubSeq(p, 1, k - 1) = SubSeq(q, 1, k - 1)
          /\ p[k] < q[k]

\* the content with the digit 1 written on every step line
WithDigitOne(content) ==
    [i \in 1..Len(content) |->
        IF content[i].kind = "step" THEN [content[i] EXCEPT !.num = 1] ELSE content[i]]

\* every node of flat carries its parent's number followed by its place among
\* the children, the top-level nodes their place alone
NumberedByPlace(steps, flat) ==
    /\ \A k \in 1..Len(steps) : steps[k].number = <<k>>
    /\ \A i \in 1..Len(flat) :
          \A k \in 1..Len(flat[i].children) :
              flat[i].children[k].number = Append(flat[i].number, k)

\* C13: the number paths of flatten(parse_steps(content)) are unique, every
\* node's number is its parent's number followed by its 1-based place among
\* its siblings whatever digits and indentation the content has, and flatten
\* lists every step line's node once, in depth-first pre-order.
C13_NumberedTree ==
    Parsed =>
        LET flat == flatten_steps(ret.value)
        IN  /\ \A i, j \in 1..Len(flat) : flat[i].number = flat[j].number => i = j
            /\ NumberedByPlace(ret.value, flat)
            /\ ret.value = parse_steps(CollectRawSteps(WithDigitOne(args.content), 1))
            /\ Len(flat) = Cardinality({i \in 1..Len(args.content) :
                                           args.content[i].kind = "step"})
            /\ \A i, j \in 1..Len(flat) :
                  i < j => PreOrderBefore(flat[i].number, flat[j].number)

\* C13 witness: the digit 7 on the first line, a step two levels deeper under
\* it numbered 1.1, and a second top-level step numbered 2
C13_Witness ==
    /\ Parsed
    /\ args.content = <<StepSource(0, 7, <<"a">>), StepSource(9, 7, <<"a">>),
                        StepSource(0, 1, <<"a">>)>>
    /\ flatten_steps(ret.value)[2].number = <<1, 1>>
    /\ flatten_steps(ret.value)[3].number = <<2>>

Found == args.fn = "find_step" /\ ret.done

\* C14: find_step returns the node for the number of every node of
\* flatten(tree), and None for every other path: the empty path, a path with
\* an index below 1 or beyond the siblings.
C14_FindStepInverse ==
    Found =>
        LET flat == flatten_steps(args.steps)
        IN  /\ \A i \in 1..Len(flat) :
                  args.number = flat[i].number => ret.value = flat[i]
            /\ (\A i \in 1..Len(flat) : args.number # flat[i].number)
                  => ret.value = None

\* C14 witness: the nested step 1.1 found
C14_Witness ==
    /\ Found
    /\ args.number = <<1, 1>>
    /\ ret.value # None
    /\ ret.value.number = <<1, 1>>

\* C14 witness: nothing for the empty path and for an index beyond the siblings
C14_WitnessNone ==
    /\ Found
    /\ args.steps # <<>>
    /\ args.number \in {<<>>, <<0>>, <<1, 3>>}
    /\ ret.value = None

(***************************************************************************)
(* SpecOrder: _longest_increasing_subsequence_length on every sequence of  *)
(* integers within the bounds, and compute_coverage on the four-step tree  *)
(* 1, 1.1, 2, 3 under every order of step comments within the bounds.      *)
(***************************************************************************)
MaxSeqLen == 4
MaxValue == 1
MaxComments == 4

\* the steps 1, 1.1, 2, 3
OrderTree ==
    parse_steps(<< [indent |-> 0, text |-> <<"a">>], [indent |-> 1, text |-> <<"a">>],
                   [indent |-> 0, text |-> <<"a">>], [indent |-> 0, text |-> <<"a">>] >>)

\* a step comment on every step of the tree and on the step 4 it does not
\* have, matching; the step 2 also mismatching and the step 1 also not found
OrderPool ==
    {StepValidation(StepComment(0, 0, 10, n, <<>>, None), EXACT, <<>>, <<"t">>) :
        n \in {<<1>>, <<1, 1>>, <<2>>, <<3>>, <<4>>}}
    \cup {StepValidation(StepComment(0, 0, 10, <<2>>, <<>>, None), MISMATCH, <<>>, <<"t">>),
          StepValidation(StepComment(0, 0, 10, <<1>>, <<>>, None), NOT_FOUND, <<>>, <<"t">>)}

OrderInit ==
    /\ args \in {[fn |-> "compute_coverage", validations |-> <<>>,
                  algo_steps |-> OrderTree]}
                \cup [fn : {"_longest_increasing_subsequence_length"},
                      seq : SeqsUpTo(-1..MaxValue, MaxSeqLen)]
    /\ ret = NoResult
    /\ Created

LisCall ==
    /\ args.fn = "_longest_increasing_subsequence_length"
    /\ ~ret.done
    /\ ret' = Result(_longest_increasing_subsequence_length(args.seq))
    /\ UNCHANGED <<args, serverVars>>

\* compute_coverage with one more step comment at the end of the source
NextComment ==
    /\ args.fn = "compute_coverage"
    /\ ret.done
    /\ Len(args.validations) < MaxComments
    /\ \E v \in OrderPool :
          /\ args' = [args EXCEPT !.validations = Append(@, v)]
          /\ ret' = Result(compute_coverage(args'.validations, args.algo_steps, <<"t">>))
    /\ UNCHANGED serverVars

OrderNext == LisCall \/ ComputeCoverageCall \/ NextComment

SpecOrder == OrderInit /\ [][OrderNext]_vars

\* the sets of indices of seq whose values increase strictly from left to right
Increasing(seq) ==
    {I \in SUBSET (1..Len(seq)) : \A i, j \in I : i < j => seq[i] < seq[j]}

\* the length of the longest strictly increasing subsequence of seq
StrictLis(seq) ==
    CHOOSE n \in 0..Len(seq) :
        /\ \E I \in Increasing(seq) : Cardinality(I) = n
        /\ \A I \in Increasing(seq) : Cardinality(I) <= n

\* the validations that are the first to implement their step, in comment order
RECURSIVE FirstImplementing(_, _)
FirstImplementing(validations, i) ==
    IF i > Len(validations) THEN <<>>
    ELSE (IF /\ validations[i].result \in Implementing
             /\ \A j \in 1..(i - 1) :
                   validations[j].result \in Implementing
                       => validations[j].step.number # validations[i].step.number
          THEN <<validations[i]>> ELSE <<>>) \o FirstImplementing(validations, i + 1)

\* the 0-based index in flat of the one step numbered number
FlatIndex(flat, number) == (CHOOSE i \in 1..Len(flat) : flat[i].number = number) - 1

\* the flatten-indices of the steps of the tree the validations implement, in
\* the order of their first comments
RECURSIVE PositionsOf(_, _)
PositionsOf(firsts, flat) ==
    IF firsts = <<>> THEN <<>>
    ELSE (IF \E i \in 1..Len(flat) : flat[i].number = Head(firsts).step.number
          THEN <<FlatIndex(flat, Head(firsts).step.number)>> ELSE <<>>)
         \o PositionsOf(Tail(firsts), flat)

SpecOrderIndices == PositionsOf(FirstImplementing(args.validations, 1),
                         flatten_steps(args.algo_steps))

LisReturned == args.fn = "_longest_increasing_subsequence_length" /\ ret.done

\* C11: _longest_increasing_subsequence_length returns the length of the
\* longest strictly increasing subsequence of every integer sequence, and
\* reordered is the number of positions minus that length for the positions.
C11_ReorderedIsLisDeficit ==
    /\ LisReturned => ret.value = StrictLis(args.seq)
    /\ Covered => ret.value.reordered = Len(SpecOrderIndices) - StrictLis(SpecOrderIndices)

\* C11 witness: the comments in the order 3, 1, 2, 4 of the four flat steps,
\* one of them reordered
C11_Witness ==
    /\ Covered
    /\ SpecOrderIndices = <<2, 0, 1, 3>>
    /\ ret.value.reordered = 1

\* C11 witness of the function: equal values extend no subsequence
C11_WitnessEqual ==
    /\ LisReturned
    /\ args.seq = <<1, 1, 0, 1>>
    /\ ret.value = 2

StrictlyIncreasing(seq) == \A i \in 1..(Len(seq) - 1) : seq[i] < seq[i + 1]

\* C12 as stated: 0 <= reordered <= len(positions) - 1 for every result.
C12_BoundAnyList ==
    Covered => /\ 0 <= ret.value.reordered
               /\ ret.value.reordered <= Len(SpecOrderIndices) - 1
               /\ StrictlyIncreasing(SpecOrderIndices) => ret.value.reordered = 0

\* C12 amended: 0 <= reordered always; reordered <= len(positions) - 1 when
\* there is a position, reordered = 0 when there is none or when the positions
\* increase strictly.
C12_BoundWithPositions ==
    Covered => /\ 0 <= ret.value.reordered
               /\ SpecOrderIndices # <<>> => ret.value.reordered <= Len(SpecOrderIndices) - 1
               /\ SpecOrderIndices = <<>> => ret.value.reordered = 0
               /\ StrictlyIncreasing(SpecOrderIndices) => ret.value.reordered = 0

\* C12 witness: the upper bound is met by comments in descending order
C12_Witness ==
    /\ Covered
    /\ Len(SpecOrderIndices) = 4
    /\ ret.value.reordered = Len(SpecOrderIndices) - 1

(***************************************************************************)
(* Spec: the language server under the notifications and requests of a     *)
(* client.  A document is opened with version 1 and every change gives it  *)
(* the next version; the framework has put the new text into the workspace *)
(* when a handler runs.                                                    *)
(***************************************************************************)
MaxVersion == 2
MaxTasks == 2

InitOptions == {None, [fuzzyThreshold |-> LenientThreshold], [fuzzyThreshold |-> 101]}

\* the document of Spec
Documents == {"u1"}

\* cursor positions: column 4 lies in every citation and step comment, column 9
\* at the end of a citation and behind a step comment
Positions == [line : 0..4, character : {4}] \cup [line : {0, 1}, character : {9}]

LineRanges == {[start |-> 0, end |-> 4], [start |-> 2, end |-> 3]}

Init ==
    /\ args = [fn |-> "serve"]
    /\ ret = NoResult
    /\ Created

on_initialized(init_opts) ==
    /\ ~initialized
    /\ initialized' = TRUE
    /\ server' = IF init_opts # None /\ init_opts.fuzzyThreshold >= 0
                                     /\ init_opts.fuzzyThreshold <= 100
                 THEN [Begin EXCEPT !.fuzzy_threshold = init_opts.fuzzyThreshold]
                 ELSE Begin
    /\ event' = Event("on_initialized", "", None, None, {}, 0)
    /\ UNCHANGED <<args, ret, workspace, _debounce_tasks, tasks>>

\* a handler publishes p.value
Publish(handler, uri, p, task) ==
    /\ server' = p.s
    /\ event' = Event(handler, uri, None, Some(p.value), p.origin, task)

\* a handler returns r.value
Respond(handler, uri, r) ==
    /\ server' = r.s
    /\ event' = Event(handler, uri, r.value, None, r.origin, 0)

did_open(uri, text) ==
    /\ initialized
    /\ workspace[uri] = None
    /\ workspace' = [workspace EXCEPT ![uri] = [source |-> text, version |-> 1]]
    /\ Publish("did_open", uri,
               _publish_diagnostics(_scan_doc(Begin, uri, text, 1).s, uri, text, 1), 0)
    /\ UNCHANGED <<args, ret, _debounce_tasks, tasks, initialized>>

\* did_change on a document whose version is below last_version
did_change_within(uri, text, last_version) ==
    /\ initialized
    /\ workspace[uri] # None
    /\ workspace[uri].version < last_version
    /\ Len(tasks) < MaxTasks
    /\ workspace' = [workspace EXCEPT ![uri] = [source |-> text, version |-> @.version + 1]]
    /\ tasks' = Append(CancelRegistered(uri), create_task(uri))
    /\ _debounce_tasks' = [_debounce_tasks EXCEPT ![uri] = Len(tasks) + 1]
    /\ server' = Begin
    /\ event' = Event("did_change", uri, None, None, {}, Len(tasks) + 1)
    /\ UNCHANGED <<args, ret, initialized>>

did_change(uri, text) == did_change_within(uri, text, MaxVersion)

\* the timer of the sleep never fires
SleepLost(t) ==
    /\ t \in 1..Len(tasks)
    /\ FALSE
    /\ UNCHANGED vars

\* asyncio.sleep(_DEBOUNCE_DELAY) of a task is over
SleepDone(t) ==
    /\ t \in 1..Len(tasks)
    /\ Pending(tasks[t])
    /\ ~tasks[t].sleep_done
    /\ tasks' = [tasks EXCEPT ![t].sleep_done = TRUE]
    /\ server' = Begin
    /\ event' = Event("sleep", tasks[t].uri, None, None, {}, t)
    /\ UNCHANGED <<args, ret, workspace, _debounce_tasks, initialized>>

\* the task resumes behind its sleep (lines 261-263); its document is open,
\* since did_close cancels the task of a document
Resumable(t) ==
    /\ t \in 1..Len(tasks)
    /\ Pending(tasks[t])
    /\ tasks[t].sleep_done
    /\ workspace[tasks[t].uri] # None

_debounced_analysis(t) ==
    /\ Resumable(t)
    /\ Publish("_debounced_analysis", tasks[t].uri,
               _publish_diagnostics(
                   _scan_doc(Begin, tasks[t].uri, workspace[tasks[t].uri].source,
                             workspace[tasks[t].uri].version).s,
                   tasks[t].uri, workspace[tasks[t].uri].source,
                   workspace[tasks[t].uri].version),
               t)
    /\ tasks' = [tasks EXCEPT ![t].state = "FINISHED"]
    /\ UNCHANGED <<args, ret, workspace, _debounce_tasks, initialized>>

\* did_close without line 303: the coverages of the document stay
CloseKeepingCoverages(uri) ==
    /\ initialized
    /\ workspace[uri] # None
    /\ workspace' = [workspace EXCEPT ![uri] = None]
    /\ tasks' = CancelRegistered(uri)
    /\ _debounce_tasks' = [_debounce_tasks EXCEPT ![uri] = 0]
    /\ server' = [Begin EXCEPT !._doc_urls[uri] = None,
                               !._doc_validations[uri] = None,
                               !._doc_scopes[uri] = None]
    /\ event' = Event("did_close", uri, None, Some(<<>>), {}, 0)
    /\ UNCHANGED <<args, ret, initialized>>

did_close(uri) ==
    /\ initialized
    /\ workspace[uri] # None
    /\ workspace' = [workspace EXCEPT ![uri] = None]
    /\ tasks' = CancelRegistered(uri)
    /\ _debounce_tasks' = [_debounce_tasks EXCEPT ![uri] = 0]
    /\ server' = [Begin EXCEPT !._doc_urls[uri] = None,
                               !._doc_validations[uri] = None,
                               !._doc_scopes[uri] = None,
                               !._doc_coverages[uri] = None]
    /\ event' = Event("did_close", uri, None, Some(<<>>), {}, 0)
    /\ UNCHANGED <<args, ret, initialized>>

hover(uri, pos) ==
    /\ initialized
    /\ workspace[uri] # None
    /\ Respond("hover", uri, Hover(Begin, uri, workspace[uri], pos))
    /\ UNCHANGED <<args, ret, workspace, _debounce_tasks, tasks, initialized>>

inlay_hint(uri, range) ==
    /\ initialized
    /\ workspace[uri] # None
    /\ Respond("inlay_hint", uri,
               InlayHinted(_validate_doc(Begin, uri, workspace[uri].source,
                                         workspace[uri].version), range))
    /\ UNCHANGED <<args, ret, workspace, _debounce_tasks, tasks, initialized>>

code_lens(uri) ==
    /\ initialized
    /\ workspace[uri] # None
    /\ Respond("code_lens", uri,
               CodeLensed(_coverage_doc(Begin, uri, workspace[uri].source,
                                        workspace[uri].version)))
    /\ UNCHANGED <<args, ret, workspace, _debounce_tasks, tasks, initialized>>

Next ==
    \/ \E init_opts \in InitOptions : on_initialized(init_opts)
    \/ \E uri \in Documents, text \in TextPool : did_open(uri, text)
    \/ \E uri \in Documents, text \in TextPool : did_change(uri, text)
    \/ \E t \in 1..MaxTasks : SleepDone(t)
    \/ \E t \in 1..MaxTasks : _debounced_analysis(t)
    \/ \E uri \in Documents : did_close(uri)
    \/ \E uri \in Documents, pos \in Positions : hover(uri, pos)
    \/ \E uri \in Documents, range \in LineRanges : inlay_hint(uri, range)
    \/ \E uri \in Documents : code_lens(uri)

Spec == Init /\ [][Next]_vars

(***************************************************************************)
(* SpecDebounce: the notifications of a client that edits two documents,   *)
(* with the timers and the resumptions of the debounce tasks.              *)
(***************************************************************************)
\* the texts of the two documents
DebouncePool == {TextFuzzy, TextUnknown}

\* the versions of a document reach 3: a change can follow a change
MaxBurstVersion == 3

DebounceNext ==
    \/ \E init_opts \in InitOptions : on_initialized(init_opts)
    \/ \E uri \in URIs, text \in DebouncePool : did_open(uri, text)
    \/ \E uri \in URIs, text \in DebouncePool :
          did_change_within(uri, text, MaxBurstVersion)
    \/ \E t \in 1..MaxTasks : SleepDone(t)
    \/ \E t \in 1..MaxTasks : _debounced_analysis(t)
    \/ \E uri \in URIs : did_close(uri)

SpecDebounce == Init /\ [][DebounceNext]_vars

\* the event loop runs the timer of every sleep and resumes every task whose
\* sleep is over: asyncio.sleep(_DEBOUNCE_DELAY) completes 300 ms after the
\* task began, and a ready task is run in the next round of the loop.  The
\* weak fairness of _debounced_analysis(t) is written out, with Resumable(t)
\* for ENABLED <<_debounced_analysis(t)>>_vars: behind its guard the action
\* is a total assignment that finishes the task.
DebounceFairness ==
    \A t \in 1..MaxTasks :
        /\ WF_vars(SleepDone(t))
        /\ []<>(~Resumable(t)) \/ []<><<_debounced_analysis(t)>>_vars

SpecDebounceFair == Init /\ [][DebounceNext]_vars /\ DebounceFairness

(***************************************************************************)
(* SpecClose: two documents opened, edited, given code lenses and closed,  *)
(* with the timers and the resumptions of the debounce tasks.              *)
(***************************************************************************)
CloseNext ==
    \/ on_initialized(None)
    \/ \E uri \in URIs, text \in DebouncePool : did_open(uri, text)
    \/ \E uri \in URIs, text \in DebouncePool : did_change(uri, text)
    \/ \E t \in 1..MaxTasks : SleepDone(t)
    \/ \E t \in 1..MaxTasks : _debounced_analysis(t)
    \/ \E uri \in URIs : code_lens(uri)
    \/ \E uri \in URIs : did_close(uri)

SpecClose == Init /\ [][CloseNext]_vars

(***************************************************************************)
(* SpecLens: one document that is opened, edited, asked for hovers, hints  *)
(* and lenses, and closed, with a text that has step comments under a      *)
(* citation, a text that has neither citation nor step comment, and a text *)
(* whose citation the provider cannot resolve.                             *)
(***************************************************************************)
\* a text without citation and without step comment
TextPlain == << CommentLine(<<"c">>) >>

LensPool == {TextFuzzy, TextPlain, TextUnknown}

LensNext ==
    \/ on_initialized(None)
    \/ \E uri \in Documents, text \in LensPool : did_open(uri, text)
    \/ \E uri \in Documents, text \in LensPool : did_change(uri, text)
    \/ \E t \in 1..MaxTasks : SleepDone(t)
    \/ \E t \in 1..MaxTasks : _debounced_analysis(t)
    \/ \E uri \in Documents, pos \in Positions : hover(uri, pos)
    \/ \E uri \in Documents, range \in LineRanges : inlay_hint(uri, range)
    \/ \E uri \in Documents : code_lens(uri)
    \/ \E uri \in Documents : did_close(uri)

SpecLens == Init /\ [][LensNext]_vars

\* the entries of a uri in the four per-document caches
DocEntries(s, uri) ==
    <<s._doc_urls[uri], s._doc_validations[uri], s._doc_scopes[uri], s._doc_coverages[uri]>>

\* C15: did_close(uri) leaves no entry of the uri in doc_urls,
\* doc_validations, doc_scopes and doc_coverages, cancels the uri's pending
\* debounce task and publishes an empty list for the uri; the entries and
\* tasks of every other uri, the query cache and the algorithm-steps cache
\* stay as they are.
C15_CloseFrame ==
    [][event'.handler = "did_close" =>
          /\ DocEntries(server', event'.uri) = <<None, None, None, None>>
          /\ \A t \in 1..Len(tasks) :
                (tasks[t].uri = event'.uri /\ Pending(tasks[t]))
                    => tasks'[t].state = "CANCELLED"
          /\ \A t \in 1..Len(tasks') :
                tasks'[t].uri = event'.uri => ~Pending(tasks'[t])
          /\ _debounce_tasks'[event'.uri] = 0
          /\ event'.published = Some(<<>>)
          /\ \A w \in URIs \ {event'.uri} :
                /\ DocEntries(server', w) = DocEntries(server, w)
                /\ _debounce_tasks'[w] = _debounce_tasks[w]
          /\ Len(tasks') = Len(tasks)
          /\ \A t \in 1..Len(tasks) :
                tasks[t].uri # event'.uri => tasks'[t] = tasks[t]
          /\ server'._query_cache = server._query_cache
          /\ server'._algo_steps_cache = server._algo_steps_cache]_vars

\* C15 witness: a document closed with its pending task cancelled, while the
\* other document keeps its four entries and its pending task, and the query
\* cache and the algorithm-steps cache hold an entry
C15_Witness ==
    /\ event.handler = "did_close"
    /\ \E t \in 1..Len(tasks) :
          /\ tasks[t].uri = event.uri
          /\ tasks[t].cancel_requested /\ tasks[t].state = "CANCELLED"
    /\ \E w \in URIs \ {event.uri} :
          /\ \A k \in 1..4 : DocEntries(server, w)[k] # None
          /\ server._doc_coverages[w].value # <<>>
          /\ _debounce_tasks[w] # 0 /\ Pending(tasks[_debounce_tasks[w]])
    /\ \E k \in Keys : server._query_cache[k] # None
    /\ \E a \in Anchors : server._algo_steps_cache[a] # None

(***************************************************************************)
(* SpecFailure: one document whose citations the provider resolves, cannot *)
(* resolve, or resolves to a section without content, under every request. *)
(***************************************************************************)
FailurePool == {TextFailedThenFine, TextEmptyContent, TextSharedAnchor, TextInterleaved}

FailureNext ==
    \/ on_initialized(None)
    \/ \E uri \in Documents, text \in FailurePool : did_open(uri, text)
    \/ \E uri \in Documents : did_close(uri)
    \/ \E uri \in Documents, pos \in Positions : hover(uri, pos)
    \/ \E uri \in Documents, range \in LineRanges : inlay_hint(uri, range)
    \/ \E uri \in Documents : code_lens(uri)

SpecFailure == Init /\ [][FailureNext]_vars

\* the scopes of the open document: each citation with the step comments
\* that follow it
ScopesOf(uri) ==
    build_scopes(scan_document(workspace[uri].source, build_url_pattern(spec_urls),
                               build_spec_lookup(spec_urls)),
                 scan_steps(workspace[uri].source))

\* provider.query raises for the scope's spec#anchor, or gives a section
\* without content (none, or none that parses to a step)
QueryFails(scope) ==
    \/ <<scope.url.spec, scope.url.anchor>> \notin DOMAIN SpecData
    \/ parse_steps(SpecData[<<scope.url.spec, scope.url.anchor>>].content) = <<>>

StepLinesOf(scope) == {scope.steps[k].line : k \in 1..Len(scope.steps)}

\* what the last handler gave for the document says nothing about the scope
SilentAbout(uri, scope) ==
    /\ server._doc_validations[uri] # None
          => \A k \in 1..Len(server._doc_validations[uri].value) :
                server._doc_validations[uri].value[k].step.line \notin StepLinesOf(scope)
    /\ (event.uri = uri /\ event.published # None)
          => \A k \in 1..Len(event.published.value) :
                event.published.value[k].range.start.line \notin StepLinesOf(scope)
    /\ (event.uri = uri /\ event.handler = "hover" /\ event.response # None)
          => event.response.value.range.start.line # scope.url.line
    /\ (event.uri = uri /\ event.handler = "code_lens" /\ event.response # None)
          => \A k \in 1..Len(event.response.value) :
                event.response.value[k].range.start.line # scope.url.line

\* every step comment of the scope has its validation
ValidatedIn(uri, scope) ==
    server._doc_validations[uri] # None
        => \A k \in 1..Len(scope.steps) :
              \E n \in 1..Len(server._doc_validations[uri].value) :
                  server._doc_validations[uri].value[n].step = scope.steps[k]

\* C16 as stated: a scope whose query raises, or gives no content, yields no
\* validation, no diagnostic, no URL hover and no code lens, while the step
\* comments of the scopes whose query succeeds are validated.
C16_FailedScopeSilent ==
    \A uri \in Documents :
        workspace[uri] # None =>
            \A i \in 1..Len(ScopesOf(uri)) :
                IF QueryFails(ScopesOf(uri)[i])
                THEN SilentAbout(uri, ScopesOf(uri)[i])
                ELSE ValidatedIn(uri, ScopesOf(uri)[i])

(***************************************************************************)
(* SpecAnalyzer: the three version-keyed operations of the server called   *)
(* directly, in any order, with any text and any version per call.         *)
(***************************************************************************)
\* the texts of the calls
AnalyzerPool == {TextTwoSpecs, TextUnknown}

AnalyzerInit ==
    /\ args = [fn |-> "analyzer"]
    /\ ret = NoResult
    /\ Created

Call(fn, uri, text, version) ==
    [fn |-> fn, uri |-> uri, text |-> text, version |-> version]

\* the call returns r.value
Return(call, r) ==
    /\ args' = call
    /\ ret' = Result(r.value)
    /\ server' = r.s
    /\ UNCHANGED <<workspace, _debounce_tasks, tasks, initialized, event>>

ScanDocCall ==
    \E uri \in Documents, text \in AnalyzerPool, version \in 1..MaxVersion :
        Return(Call("_scan_doc", uri, text, version),
               _scan_doc(Begin, uri, text, version))

ValidateDocCall ==
    \E uri \in Documents, text \in AnalyzerPool, version \in 1..MaxVersion :
        Return(Call("_validate_doc", uri, text, version),
               _validate_doc(Begin, uri, text, version))

CoverageDocCall ==
    \E uri \in Documents, text \in AnalyzerPool, version \in 1..MaxVersion :
        Return(Call("_coverage_doc", uri, text, version),
               _coverage_doc(Begin, uri, text, version))

AnalyzerNext == ScanDocCall \/ ValidateDocCall \/ CoverageDocCall

SpecAnalyzer == AnalyzerInit /\ [][AnalyzerNext]_vars

(***************************************************************************)
(* The claims about the server.                                            *)
(***************************************************************************)
AnalyzerCalls == {"_scan_doc", "_validate_doc", "_coverage_doc"}

\* the per-document cache of an operation
CacheOf(s, fn) ==
    IF fn = "_scan_doc" THEN s._doc_urls
    ELSE IF fn = "_validate_doc" THEN s._doc_validations
    ELSE s._doc_coverages

\* every cache of the server
Caches(s) ==
    <<s._doc_urls, s._doc_validations, s._doc_scopes, s._doc_coverages,
      s._query_cache, s._algo_steps_cache>>

\* C1: for any uri and version v, once _scan_doc, _validate_doc or
\* _coverage_doc has run for (uri, v), a further call of the same operation for
\* the same (uri, v) returns the identical cached value without recomputing
\* and without any provider.query call; a call with a different version
\* recomputes and overwrites the uri's entry under the new version.
C1_VersionKeyedCache ==
    [][args'.fn \in AnalyzerCalls =>
          LET before == CacheOf(server, args'.fn)[args'.uri]
              after == CacheOf(server', args'.fn)[args'.uri]
          IN  IF before # None /\ before.version = args'.version
              THEN /\ ret'.value = before.value
                   /\ Caches(server') = Caches(server)
                   /\ server'.provider.calls = <<>>
              ELSE /\ after # None
                   /\ after.version = args'.version
                   /\ after.value = ret'.value]_vars

\* C1 witness: _validate_doc called again for its (uri, v) with another text
\* gives the validations in the cache, which are not empty, without a query
C1_Witness ==
    /\ args.fn = "_validate_doc"
    /\ ret.done
    /\ ret.value # <<>>
    /\ server.provider.calls = <<>>
    /\ LET cached == server._doc_validations[args.uri]
       IN  /\ cached # None
           /\ cached.version = args.version
           /\ cached.value = ret.value
           /\ args.text \notin cached.origin

\* the per-document caches that _scan_doc, _validate_doc and _coverage_doc
\* store under a version
DocCaches(s) ==
    <<s._doc_urls, s._doc_validations, s._doc_scopes, s._doc_coverages>>

Publishing == {"did_open", "_debounced_analysis"}

Requests == {"hover", "inlay_hint", "code_lens"}

\* the server without the per-document entries of a uri
Forgetting(uri) ==
    [server EXCEPT !._doc_urls[uri] = None, !._doc_validations[uri] = None,
                   !._doc_scopes[uri] = None, !._doc_coverages[uri] = None]

\* the analysis of the text that a document has now
FreshValidations(uri) ==
    _validate_doc(Forgetting(uri), uri, workspace[uri].source,
                  workspace[uri].version).value

FreshCoverages(uri) ==
    _coverage_doc(Forgetting(uri), uri, workspace[uri].source,
                  workspace[uri].version).value

\* C2: every diagnostics list published for a uri, by did_open or by a resumed
\* debounce task, equals the analysis of the text the document has at publish
\* time, and no handler (hover, inlay hint, code lens, debounce publish)
\* returns or publishes results computed from an earlier text of the uri.
C2_NoStaleResults ==
    /\ event.handler \in Publishing \cup Requests =>
          event.origin = {workspace[event.uri].source}
    /\ event.handler \in Publishing =>
          event.published = Some(Diagnostics(event.uri, FreshValidations(event.uri)))
    /\ event.handler = "code_lens" =>
          event.response = IF FreshCoverages(event.uri) # <<>>
                           THEN Some(CodeLenses(FreshCoverages(event.uri)))
                           ELSE None

\* C2 witness: hover answers from the text of a changed document while the
\* coverage cache still holds the entry of the earlier text
C2_Witness ==
    /\ event.handler = "hover"
    /\ event.response # None
    /\ LET stale == server._doc_coverages[event.uri]
       IN  /\ stale # None
           /\ stale.version < workspace[event.uri].version
           /\ stale.value # <<>>
           /\ stale.origin # {workspace[event.uri].source}

\* C3: a debounce task cancelled while pending, by a later change on its uri
\* or by the close of its uri, never runs the analyzer and never publishes:
\* it never resumes behind its sleep, whether or not the sleep was over.
C3_CancelledTaskNeverRuns ==
    /\ \A t \in 1..Len(tasks) :
          tasks[t].cancel_requested => tasks[t].state # "FINISHED"
    /\ event.handler = "_debounced_analysis" => ~tasks[event.task].cancel_requested

\* C3 witness: two tasks of one uri, the first cancelled by the change that
\* made the second when its sleep was over, the second cancelled by the close
C3_Witness ==
    \E t1, t2 \in 1..Len(tasks) :
        /\ t1 < t2
        /\ tasks[t1].uri = tasks[t2].uri
        /\ workspace[tasks[t1].uri] = None
        /\ tasks[t1].state = "CANCELLED" /\ tasks[t1].sleep_done
        /\ tasks[t2].state = "CANCELLED"

\* a scope whose algorithm tree is resolved: its query gave a content, and a
\* tree is there under its anchor
Resolved(scope) ==
    LET result == server._query_cache[<<scope.url.spec, scope.url.anchor>>]
    IN  /\ scope.steps # <<>>
        /\ result # None
        /\ result.value.content # <<>>
        /\ server._algo_steps_cache[scope.url.anchor] # None

TreeOf(scope) == server._algo_steps_cache[scope.url.anchor].value

\* the range of a step comment, from its first to its last line
SpanOf(step) ==
    [start |-> [line |-> step.line, character |-> step.col_start],
     end |-> [line |-> IF step.end_line = None THEN step.line ELSE step.end_line.line,
              character |-> step.col_end]]

WarnedIn(scope, validations) ==
    {j \in 1..Len(validations) :
        /\ validations[j].step \in Range(scope.steps)
        /\ validations[j].result \in {MISMATCH, NOT_FOUND}}

\* what C6 says of one step comment of a resolved scope that find_step misses
NotFoundStep(uri, scope, step) ==
    LET validations == server._doc_validations[uri].value
        coverages == server._doc_coverages[uri]
        of_step == {j \in 1..Len(validations) : validations[j].step = step}
    IN  /\ Cardinality(of_step) = 1
        /\ \A j \in of_step :
              /\ validations[j].result = NOT_FOUND
              /\ validations[j].spec_text = <<>>
        /\ (coverages # None /\ coverages.version = server._doc_validations[uri].version) =>
              /\ \E c \in 1..Len(coverages.value) : coverages.value[c].url = scope.url
              /\ \A c \in 1..Len(coverages.value) :
                    coverages.value[c].url = scope.url =>
                        /\ step.number \notin Range(coverages.value[c].cov.implemented)
                        /\ coverages.value[c].cov.warnings
                               = Cardinality(WarnedIn(scope, validations))
                        /\ of_step \subseteq WarnedIn(scope, validations)
        /\ (event.handler \in Publishing /\ event.uri = uri) =>
              /\ Cardinality({d \in 1..Len(event.published.value) :
                                 event.published.value[d].range = SpanOf(step)}) = 1
              /\ \A d \in 1..Len(event.published.value) :
                    event.published.value[d].range = SpanOf(step) =>
                        event.published.value[d].severity = "Warning"

\* C6: for every step comment in a scope with a resolved algorithm tree, if
\* find_step(tree, number) returns nothing the validation is NOT_FOUND with
\* empty spec_text whatever the comment text, its number is not in implemented,
\* it adds one to warnings, and it is published as one warning-severity
\* diagnostic spanning the comment's range.
C6_NotFoundSteps ==
    \A uri \in URIs :
        (server._doc_scopes[uri] # None /\ server._doc_validations[uri] # None) =>
            \A i \in 1..Len(server._doc_scopes[uri].value) :
                LET scope == server._doc_scopes[uri].value[i]
                IN  Resolved(scope) =>
                        \A k \in 1..Len(scope.steps) :
                            find_step(TreeOf(scope), scope.steps[k].number) = None
                                => NotFoundStep(uri, scope, scope.steps[k])

\* C6 witness: a debounce publish with the coverage in the cache, for a text
\* with a NOT_FOUND step without text and a NOT_FOUND step of two lines
C6_Witness ==
    /\ event.handler = "_debounced_analysis"
    /\ event.published # None
    /\ LET validations == server._doc_validations[event.uri]
           coverages == server._doc_coverages[event.uri]
       IN  /\ validations # None /\ coverages # None
           /\ coverages.version = validations.version
           /\ \E j \in 1..Len(validations.value) :
                 /\ validations.value[j].result = NOT_FOUND
                 /\ validations.value[j].step.text = <<>>
           /\ \E j \in 1..Len(validations.value) :
                 /\ validations.value[j].result = NOT_FOUND
                 /\ validations.value[j].step.end_line # None
                 /\ \E d \in 1..Len(event.published.value) :
                       event.published.value[d].range.end.line
                           = validations.value[j].step.end_line.line
           /\ \E c \in 1..Len(coverages.value) : coverages.value[c].cov.warnings >= 2

\* the validations that ask for a diagnostic, in their order
Warned(validations) ==
    SelectSeq(validations, LAMBDA v : v.result \in {NOT_FOUND, MISMATCH})

\* the diagnostic d is the warning of the validation v in the document uri
WarningOf(d, v, uri) ==
    /\ d.severity = "Warning"
    /\ d.range.start = [line |-> v.step.line, character |-> v.step.col_start]
    /\ d.range.end = [line |-> IF v.step.end_line # None
                                THEN v.step.end_line.line ELSE v.step.line,
                       character |-> v.step.col_end]
    /\ (d.related_information # <<>>) <=> (v.spec_text # <<>>)
    /\ \A k \in 1..Len(d.related_information) :
          /\ d.related_information[k].expected = v.spec_text
          /\ d.related_information[k].uri = uri
          /\ d.related_information[k].range = d.range

\* C18: each diagnostics publish for an analysed document contains exactly
\* one warning-severity diagnostic per validation whose result is NOT_FOUND
\* or MISMATCH and none for EXACT or FUZZY, with range from (line, col_start)
\* to (end_line if set else line, col_end), and with related information
\* carrying the expected spec text exactly when spec_text is non-empty.
C18_WarningPerFailedValidation ==
    event.handler \in Publishing =>
        /\ event.published # None
        /\ server._doc_validations[event.uri] # None
        /\ Len(event.published.value)
               = Len(Warned(server._doc_validations[event.uri].value))
        /\ \A k \in 1..Len(event.published.value) :
              WarningOf(event.published.value[k],
                        Warned(server._doc_validations[event.uri].value)[k],
                        event.uri)

\* C18 witness: a publish of two warnings for three validations, the FUZZY
\* one left out, one warning spanning two lines and without related
\* information
C18_Witness ==
    /\ event.handler \in Publishing
    /\ event.published # None
    /\ Len(event.published.value) = 2
    /\ Len(server._doc_validations[event.uri].value) = 3
    /\ \E j \in 1..3 : server._doc_validations[event.uri].value[j].result = FUZZY
    /\ \E d \in 1..2 :
          /\ event.published.value[d].range.end.line
                 > event.published.value[d].range.start.line
          /\ event.published.value[d].related_information = <<>>

\* C18 witness: a publish with a MISMATCH warning that carries the expected
\* spec text
C18_WitnessRelated ==
    /\ event.handler \in Publishing
    /\ event.published # None
    /\ \E d \in 1..Len(event.published.value) :
          /\ event.published.value[d].message.says = "text differs from spec"
          /\ event.published.value[d].related_information # <<>>

\* the cursor lies in the range of a step comment, from (line, col_start) to
\* (end_line or line, col_end)
InStepRange(step, pos) ==
    /\ step.line <= pos.line
    /\ pos.line <= (IF step.end_line # None THEN step.end_line.line ELSE step.line)
    /\ pos.line = step.line => pos.character >= step.col_start
    /\ pos.line = (IF step.end_line # None THEN step.end_line.line ELSE step.line)
          => pos.character <= step.col_end

\* the citations of the document under the cursor whose record the provider has
CitedUnder(uri, pos) ==
    SelectSeq(server._doc_urls[uri].value,
              LAMBDA u : /\ u.line = pos.line
                         /\ u.col_start <= pos.character
                         /\ pos.character <= u.col_end
                         /\ <<u.spec, u.anchor>> \in DOMAIN SpecData)

\* the validated step comments of the document whose range holds the cursor
ValidatedUnder(uri, pos) ==
    SelectSeq(server._doc_validations[uri].value,
              LAMBDA v : InStepRange(v.step, pos))

\* what C19 says hover answers at the cursor
HoverByRange(uri, pos) ==
    IF CitedUnder(uri, pos) # <<>>
    THEN Some([contents |->
                   build_hover_content(SpecData[<<CitedUnder(uri, pos)[1].spec,
                                                  CitedUnder(uri, pos)[1].anchor>>]),
               range |-> [start |-> [line |-> pos.line,
                                     character |-> CitedUnder(uri, pos)[1].col_start],
                          end |-> [line |-> pos.line,
                                   character |-> CitedUnder(uri, pos)[1].col_end]]])
    ELSE IF ValidatedUnder(uri, pos) # <<>>
    THEN Some([contents |-> StepMarkdown(ValidatedUnder(uri, pos)[1]),
               range |-> SpanOf(ValidatedUnder(uri, pos)[1].step)])
    ELSE None

\* C19: hover returns the rendered provider record when the cursor lies
\* within a UrlMatch range and the record is available; otherwise, for every
\* cursor position within the range of a validated step comment (from
\* (line, col_start) to (end_line or line, col_end), continuation lines
\* included), hover returns that step's label and outcome, with the spec
\* text for FUZZY and MISMATCH; otherwise it returns nothing.
C19_HoverByRange ==
    [][\A uri \in Documents : \A pos \in Positions :
          hover(uri, pos) => event'.response = HoverByRange(uri, pos)']_vars

\* the citations of the document that have a valid coverage: a step comment
\* in the scope, and an algorithm that resolved to a tree with a step
ValidCitations(uri) ==
    SelectSeq(ScopesOf(uri), LAMBDA scope : scope.steps # <<>> /\ ~QueryFails(scope))

\* the numbers of the tree that are not implemented, in the order of the spec
MissingInOrder(tree, implemented) ==
    SelectSeq([k \in 1..Len(flatten_steps(tree)) |-> flatten_steps(tree)[k].number],
              LAMBDA number : number \notin Range(implemented))

\* the lens of a citation whose coverage is cov, counted on the tree
LensOf(scope, cov, tree) ==
    [range |-> [start |-> [line |-> scope.url.line, character |-> 0],
                end |-> [line |-> scope.url.line, character |-> 0]],
     title |-> summary(cov),
     command |-> "webspecLens.showCoverage",
     arguments |-> <<scope.url.anchor, Len(flatten_steps(tree)),
                     [k \in 1..Len(MissingInOrder(tree, cov.implemented)) |->
                         DottedLabel(MissingInOrder(tree, cov.implemented)[k])]>>]

\* the lenses are those of the citations, one each and in their order
LensPerCitation(lenses, citations, coverages) ==
    /\ Len(lenses) = Len(citations)
    /\ \A k \in 1..Len(lenses) :
          k <= Len(citations) =>
              \E c \in 1..Len(coverages) :
                  /\ coverages[c].url = citations[k].url
                  /\ lenses[k] = LensOf(citations[k], coverages[c].cov,
                                         server._algo_steps_cache[citations[k].url.anchor].value)

\* C20: code_lens returns exactly one lens for each URL citation that has a
\* valid coverage (its scope has at least one step comment and its algorithm
\* resolved to a non-empty tree) and none for any other citation; the lens
\* sits on the citation's line, its title is coverage.summary(), and its
\* command webspecLens.showCoverage carries [anchor, total_steps, dotted
\* labels of the missing steps in spec order].
C20_LensPerValidCoverage ==
    event.handler = "code_lens" =>
        LensPerCitation(IF event.response = None THEN <<>> ELSE event.response.value,
                        ValidCitations(event.uri),
                        server._doc_coverages[event.uri].value)

\* the scopes of a text: each citation with the step comments that follow it
\* up to the next citation
ScopesIn(text) ==
    build_scopes(scan_document(text, build_url_pattern(spec_urls),
                               build_spec_lookup(spec_urls)),
                 scan_steps(text))

\* the validations of the step comments of a scope
ValidationsOf(scope, validations) ==
    SelectSeq(validations, LAMBDA v : v.step \in Range(scope.steps))

\* the coverage cov counts the validations of the scope and no other
CountsScope(cov, scope, validations) ==
    /\ Range(cov.implemented)
           = {ValidationsOf(scope, validations)[k].step.number :
                 k \in {j \in 1..Len(ValidationsOf(scope, validations)) :
                            ValidationsOf(scope, validations)[j].result # NOT_FOUND}}
    /\ cov.warnings
           = Cardinality({j \in 1..Len(ValidationsOf(scope, validations)) :
                             ValidationsOf(scope, validations)[j].result
                                 \in {MISMATCH, NOT_FOUND}})

\* every coverage is that of one scope of the text, counted on its validations
CoveragePerScope(coverages, scopes, validations) ==
    \A c \in 1..Len(coverages) :
        \E i \in 1..Len(scopes) :
            /\ scopes[i].url = coverages[c].url
            /\ CountsScope(coverages[c].cov, scopes[i], validations)

\* the coverages of the file A, stepA1, B, stepB1, stepA2: A 1/2 and B 2/2
InterleavedCoverage(coverages) ==
    /\ Len(coverages) = 2
    /\ coverages[1].url.line = 0
    /\ implemented_count(coverages[1].cov) = 1
    /\ coverages[1].cov.total_steps = 2
    /\ coverages[2].url.line = 2
    /\ implemented_count(coverages[2].cov) = 2
    /\ coverages[2].cov.total_steps = 2

\* C21: the coverage of each URL citation is computed from exactly the
\* validations of the step comments assigned to that citation's scope
\* (nearest preceding URL) and from no other scope's validations: in a file
\* arranged as A, stepA1, B, stepB1, stepA2 with two 2-step algorithms, A has
\* coverage 1/2 and B has coverage 2/2.  It is stated of the coverages that
\* were computed from one text.
C21_CoverageFromOwnScope ==
    \A uri \in Documents :
        (/\ server._doc_coverages[uri] # None
         /\ server._doc_validations[uri] # None
         /\ server._doc_validations[uri].version = server._doc_coverages[uri].version)
            => \A text \in server._doc_coverages[uri].origin :
                  (/\ server._doc_coverages[uri].origin = {text}
                   /\ server._doc_validations[uri].origin = {text}) =>
                  /\ CoveragePerScope(server._doc_coverages[uri].value, ScopesIn(text),
                                      server._doc_validations[uri].value)
                  /\ text = TextInterleaved
                        => InterleavedCoverage(server._doc_coverages[uri].value)

\* C21 witness: code_lens has answered with the two coverages of the file
\* A, stepA1, B, stepB1, stepA2
C21_Witness ==
    /\ event.handler = "code_lens"
    /\ workspace[event.uri] # None
    /\ workspace[event.uri].source = TextInterleaved
    /\ event.response # None
    /\ Len(event.response.value) = 2
    /\ server._doc_coverages[event.uri] # None
    /\ server._doc_coverages[event.uri].origin = {TextInterleaved}
    /\ Len(server._doc_coverages[event.uri].value) = 2
    /\ server._doc_validations[event.uri] # None
    /\ server._doc_validations[event.uri].origin = {TextInterleaved}
    /\ server._doc_validations[event.uri].version
           = server._doc_coverages[event.uri].version

\* the call classifies the comment of the worked example against spec_text
ExampleClassified(spec_text) ==
    /\ Classified
    /\ args.comment_text = ExampleComment
    /\ args.spec_text = spec_text

\* C22 as stated: the step comment "Assert: userInvolvement is browser UI"
\* classified against the spec step text
\* "Assert: *userInvolvement* is "browser UI"." yields EXACT, because
\* normalization strips "*", quotes and the trailing period.
C22_ExampleExact == ExampleClassified(ExampleSpec) => Outcome = EXACT

\* C22 amended: the comment classified against that spec text yields FUZZY,
\* because normalization strips "*" and the trailing period but keeps the
\* quotes, so the two normalized texts differ by the two quotes only; against
\* the spec text without the quotes it yields EXACT.
C22_ExampleFuzzy ==
    /\ ExampleClassified(ExampleSpec) =>
          /\ Outcome = FUZZY
          /\ "*" \notin Range(NormSpec)
          /\ NormSpec[Len(NormSpec)] = "\""
          /\ SelectSeq(NormSpec, LAMBDA ch : ch # "\"") = NormComment
    /\ ExampleClassified(ExampleSpecUnquoted) =>
          /\ Outcome = EXACT
          /\ NormSpec = NormComment

\* C22 witness: the comment of the example classified as FUZZY against the
\* spec text with the quotes, at the default threshold
C22_Witness ==
    /\ ExampleClassified(ExampleSpec)
    /\ args.threshold = DefaultThreshold
    /\ Outcome = FUZZY

\* C22 witness: the same comment classified as EXACT against the spec text
\* without the quotes
C22_WitnessUnquoted ==
    /\ ExampleClassified(ExampleSpecUnquoted)
    /\ Outcome = EXACT

(***************************************************************************)
(* SpecPattern: scan_steps on lines given by their characters.  A line is  *)
(* written from its shape: opener, "Step " prefix, number parts, trailing  *)
(* dot, text, and the close of a block comment.                            *)
(***************************************************************************)
MaxScanLines == 3

Openers == {<<"/", "/">>, <<"#">>, <<"/", "*">>, <<>>}

StepWords == {<<>>, <<"S", "t", "e", "p", " ">>}

PartsPool == {<<>>, <<5>>, <<42>>, <<5, 1>>}

LineTexts ==
    {<<>>, <<"x">>,
     <<"L", "e", "t", " ", "x", " ", "b", "e", " ", "y">>,
     <<"i", "s", " ", "t", "h", "e", " ", "a", "n", "s", "w", "e", "r">>}

Shape(opener, step, parts, dot, text, close) ==
    [opener |-> opener, step |-> step, parts |-> parts, dot |-> dot,
     text |-> text, close |-> close]

\* the shapes of the single lines
ShapePool ==
    [opener : Openers, step : StepWords, parts : PartsPool, dot : BOOLEAN,
     text : LineTexts, close : BOOLEAN]

\* the shapes of the lines of the longer texts: two step comments, a bare
\* number, two comments, a comment opener alone, code, a blank line, and a
\* block comment on one line
ShortPool ==
    {Shape(<<"/", "/">>, <<"S", "t", "e", "p", " ">>, <<1>>, TRUE, <<"x">>, FALSE),
     Shape(<<"/", "/">>, <<>>, <<2>>, TRUE, <<>>, FALSE),
     Shape(<<"/", "/">>, <<>>, <<4>>, FALSE, <<"y">>, FALSE),
     Shape(<<"/", "/">>, <<>>, <<>>, FALSE, <<"y">>, FALSE),
     Shape(<<"#">>, <<>>, <<>>, FALSE, <<"z">>, FALSE),
     Shape(<<"/", "/">>, <<>>, <<>>, FALSE, <<>>, FALSE),
     Shape(<<>>, <<>>, <<>>, FALSE, <<"z">>, FALSE),
     Shape(<<>>, <<>>, <<>>, FALSE, <<>>, FALSE),
     Shape(<<"/", "*">>, <<>>, <<>>, FALSE, <<"y">>, TRUE)}

\* str(n)
RECURSIVE DigitsOf(_)
DigitsOf(n) ==
    IF n < 10 THEN <<DigitChars[n + 1]>>
    ELSE DigitsOf(n \div 10) \o <<DigitChars[(n % 10) + 1]>>

RECURSIVE NumberChars(_)
NumberChars(parts) ==
    IF parts = <<>> THEN <<>>
    ELSE IF Len(parts) = 1 THEN DigitsOf(parts[1])
    ELSE DigitsOf(parts[1]) \o <<".">> \o NumberChars(Tail(parts))

\* the characters of the line of a shape
Render(shape) ==
    shape.opener
        \o (IF shape.opener # <<>> THEN <<" ">> ELSE <<>>)
        \o (IF shape.parts # <<>> THEN shape.step ELSE <<>>)
        \o NumberChars(shape.parts)
        \o (IF shape.parts # <<>> /\ shape.dot THEN <<".">> ELSE <<>>)
        \o (IF shape.text # <<>>
            THEN (IF shape.opener # <<>> \/ shape.parts # <<>> THEN <<" ">> ELSE <<>>)
                     \o shape.text
            ELSE <<>>)
        \o (IF shape.close THEN <<" ", "*", "/">> ELSE <<>>)

PatternInit ==
    /\ args \in [fn : {"scan_steps"},
                 shapes : [1..1 -> ShapePool]
                              \cup UNION {[1..k -> ShortPool] : k \in 2..MaxScanLines}]
    /\ ret = NoResult
    /\ Created

ScanStepsCall ==
    /\ args.fn = "scan_steps"
    /\ ret = NoResult
    /\ ret' = Result(scan_steps_of_lines([i \in 1..Len(args.shapes) |->
                                             Render(args.shapes[i])]))
    /\ UNCHANGED <<args, serverVars>>

PatternNext == ScanStepsCall

SpecPattern == PatternInit /\ [][PatternNext]_vars

\* scan_steps has returned for one line
ScannedLine == args.fn = "scan_steps" /\ ret.done /\ Len(args.shapes) = 1

\* the line has a comment opener and a number behind it, and one of the
\* signals: the "Step " prefix, the trailing dot, a number of several parts
Signalled(shape) ==
    /\ shape.opener # <<>>
    /\ shape.parts # <<>>
    /\ \/ shape.step # <<>>
       \/ shape.dot
       \/ Len(shape.parts) > 1

BareNumberLine ==
    <<"/", "/", " ", "4", "2", " ", "i", "s", " ", "t", "h", "e", " ", "a", "n", "s", "w", "e", "r">>

NumberedLine ==
    <<"/", "/", " ", "5", ".", " ", "L", "e", "t", " ", "x", " ", "b", "e", " ", "y">>

\* C23: scan_steps reports a line that matches the step pattern as a step
\* comment iff at least one of these holds: the "Step " prefix is present,
\* the number is followed by a trailing dot, or the number has more than one
\* dotted part; a bare single number ("// 42 is the answer") yields no step
\* comment, and "// 5. Let x be y" yields number [5] with text "Let x be y".
C23_StepSignals ==
    ScannedLine =>
        /\ (ret.value # <<>>) <=> Signalled(args.shapes[1])
        /\ ret.value # <<>> =>
              /\ Len(ret.value) = 1
              /\ ret.value[1].line = 0
              /\ ret.value[1].number = args.shapes[1].parts
              /\ ret.value[1].text = args.shapes[1].text
              /\ ret.value[1].end_line = None
        /\ Render(args.shapes[1]) = BareNumberLine => ret.value = <<>>
        /\ Render(args.shapes[1]) = NumberedLine =>
              /\ Len(ret.value) = 1
              /\ ret.value[1].number = <<5>>
              /\ ret.value[1].text
                     = <<"L", "e", "t", " ", "x", " ", "b", "e", " ", "y">>

\* C23 witness: "// 5. Let x be y" scanned to its one step comment
C23_Witness ==
    /\ ScannedLine
    /\ Render(args.shapes[1]) = NumberedLine
    /\ Len(ret.value) = 1
    /\ ret.value[1].number = <<5>>

\* C23 witness: "// 42 is the answer" scanned to no step comment
C23_WitnessBare ==
    /\ ScannedLine
    /\ Render(args.shapes[1]) = BareNumberLine
    /\ ret.value = <<>>

\* scan_steps has returned for a text of several lines
ScannedLines == args.fn = "scan_steps" /\ ret.done /\ Len(args.shapes) > 1

\* the line has a comment opener and no number behind it: a comment-only
\* line that does not match the step pattern
CommentOnly(shape) == shape.opener # <<>> /\ shape.parts = <<>>

\* a comment-only line that _CONTINUATION_RE takes with a text: it begins
\* with //, # or a lone * (not with the opener of a block comment) and has
\* text behind the opener
ContinuationLine(shape) ==
    /\ CommentOnly(shape)
    /\ shape.opener \in {<<"/", "/">>, <<"#">>, <<"*">>}
    /\ shape.text # <<>>

\* the last line of the maximal run of lines behind line i that are
\* comment-only (with_text: that are continuation lines); i without a run
RECURSIVE RunEnd(_, _, _)
RunEnd(shapes, i, with_text) ==
    IF /\ i < Len(shapes)
       /\ IF with_text THEN ContinuationLine(shapes[i + 1])
          ELSE CommentOnly(shapes[i + 1])
    THEN RunEnd(shapes, i + 1, with_text)
    ELSE i

\* the texts of lines i..e joined with single spaces
RECURSIVE MergedText(_, _, _)
MergedText(shapes, i, e) ==
    IF e = i THEN shapes[i].text
    ELSE MergedText(shapes, i, e - 1) \o <<" ">> \o shapes[e].text

\* the step comments are those of the signalled lines, in order, each with
\* the run of lines behind it
MergesRuns(with_text) ==
    ScannedLines =>
        /\ Len(ret.value)
               = Cardinality({i \in 1..Len(args.shapes) : Signalled(args.shapes[i])})
        /\ \A k \in 1..Len(ret.value) :
              /\ ret.value[k].line + 1 \in 1..Len(args.shapes)
              /\ Signalled(args.shapes[ret.value[k].line + 1])
              /\ k > 1 =>
                    /\ ret.value[k - 1].line < ret.value[k].line
                    /\ ret.value[k - 1].end_line # None =>
                           ret.value[k - 1].end_line.line < ret.value[k].line
              /\ ret.value[k].number = args.shapes[ret.value[k].line + 1].parts
              /\ ret.value[k].end_line
                     = (IF RunEnd(args.shapes, ret.value[k].line + 1, with_text)
                               > ret.value[k].line + 1
                        THEN [line |-> RunEnd(args.shapes, ret.value[k].line + 1,
                                              with_text) - 1]
                        ELSE None)
              /\ ret.value[k].text
                     = MergedText(args.shapes, ret.value[k].line + 1,
                                  RunEnd(args.shapes, ret.value[k].line + 1, with_text))
              /\ ret.value[k].col_end
                     = Len(Render(args.shapes[RunEnd(args.shapes,
                                                     ret.value[k].line + 1, with_text)]))

C24_WitnessOpenerAlone ==
    /\ ScannedLines
    /\ Len(args.shapes) = 3
    /\ Signalled(args.shapes[1])
    /\ CommentOnly(args.shapes[2]) /\ args.shapes[2].text = <<>>
    /\ ContinuationLine(args.shapes[3])
    /\ Len(ret.value) = 1
    /\ ret.value[1].end_line = None

\* task t is at its sleep or ready to resume
TaskPending(t) == t <= Len(tasks) /\ Pending(tasks[t])

\* task t has resumed and published, or a handler has cancelled it
TaskSettled(t) ==
    /\ t <= Len(tasks)
    /\ tasks[t].state = "FINISHED" \/ tasks[t].cancel_requested

\* what a resumed task has published is the diagnostics of the text that its
\* document has then, and the task is the one registered for the uri
PublishedSnapshot ==
    /\ tasks[event.task].state = "FINISHED"
    /\ tasks[event.task].uri = event.uri
    /\ _debounce_tasks[event.uri] = event.task
    /\ workspace[event.uri] # None
    /\ event.origin = {workspace[event.uri].source}
    /\ event.published = Some(Diagnostics(event.uri, FreshValidations(event.uri)))

\* the step in which task t resumes is a publishing step of t
ResumePublishes ==
    \A t \in 1..Len(tasks) :
        (Pending(tasks[t]) /\ tasks'[t].state = "FINISHED") =>
            /\ event'.handler = "_debounced_analysis"
            /\ event'.task = t
            /\ event'.published # None

\* a task publishes in the step of its resumption only, and a task that has
\* resumed or was cancelled stays as it is
PublishesOnce ==
    /\ \A t \in 1..Len(tasks) : ~Pending(tasks[t]) => tasks'[t] = tasks[t]
    /\ (event'.handler = "_debounced_analysis" /\ event' # event) =>
           /\ event'.task \in 1..Len(tasks)
           /\ Pending(tasks[event'.task])
           /\ tasks'[event'.task].state = "FINISHED"

\* only a later change or the close of its own uri cancels a task
CancelledByOwnUri ==
    \A t \in 1..Len(tasks) :
        (~tasks[t].cancel_requested /\ tasks'[t].cancel_requested) =>
            /\ event'.handler \in {"did_change", "did_close"}
            /\ event'.uri = tasks[t].uri

\* C25: if a change event occurs on an open uri and no later change or close
\* occurs on that uri, then, under fair scheduling of the timer, the debounce
\* task eventually resumes, and the diagnostics computed from the snapshot
\* the document has then are published exactly once for that change burst.
C25_DebouncedReanalysis ==
    /\ \A t \in 1..MaxTasks : TaskPending(t) ~> TaskSettled(t)
    /\ [](event.handler = "_debounced_analysis" => PublishedSnapshot)
    /\ [][ResumePublishes]_vars
    /\ [][PublishesOnce]_vars
    /\ [][CancelledByOwnUri]_vars

\* C25 witness: a burst of two changes on one uri; the task of the first
\* change was cancelled, the task of the second has resumed and published
C25_Witness ==
    /\ Len(tasks) = 2
    /\ tasks[1].uri = tasks[2].uri
    /\ tasks[1].state = "CANCELLED"
    /\ tasks[2].state = "FINISHED"
    /\ event.handler = "_debounced_analysis"
    /\ event.task = 2
    /\ event.published # None
    /\ workspace[event.uri] # None
    /\ workspace[event.uri].version = 3

\* the pending tasks of a uri
PendingOf(uri) == {t \in 1..Len(tasks) : tasks[t].uri = uri /\ Pending(tasks[t])}

\* a change or a close of the document uri
ChangeOrClose(uri) ==
    \/ \E text \in DebouncePool : did_change_within(uri, text, MaxBurstVersion)
    \/ did_close(uri)

\* the step leaves the tasks of the other uris, their registrations and
\* their documents as they are: a pending task is neither cancelled nor put
\* back before its sleep, and stays resumable when it was
OthersUntouched(uri) ==
    /\ \A t \in 1..Len(tasks) : tasks[t].uri # uri => tasks'[t] = tasks[t]
    /\ \A other \in URIs \ {uri} :
          /\ _debounce_tasks'[other] = _debounce_tasks[other]
          /\ workspace'[other] = workspace[other]
          /\ PendingOf(other)' = PendingOf(other)

\* C26: in every reachable state there is at most one pending (not finished,
\* not cancelled) debounce task per uri, and a change or close event on one
\* uri never cancels or delays the pending task of a different uri.
C26_OnePendingTaskPerUri ==
    /\ [](\A uri \in URIs :
             /\ Cardinality(PendingOf(uri)) <= 1
             /\ PendingOf(uri) \subseteq {_debounce_tasks[uri]})
    /\ [][\A uri \in URIs : ChangeOrClose(uri) => OthersUntouched(uri)]_vars

\* C26 witness: the change of one document has made its task while the task
\* of the other document is pending, and both stay pending
C26_Witness ==
    /\ event.handler = "did_change"
    /\ PendingOf(event.uri) = {event.task}
    /\ \E other \in URIs \ {event.uri} :
          /\ PendingOf(other) # {}
          /\ PendingOf(other) = {_debounce_tasks[other]}

\* C26 witness: the close of one document has cancelled its task while the
\* task of the other document stays pending
C26_WitnessClose ==
    /\ event.handler = "did_close"
    /\ \E t \in 1..Len(tasks) :
          /\ tasks[t].uri = event.uri
          /\ tasks[t].cancel_requested
    /\ PendingOf(event.uri) = {}
    /\ \E other \in URIs \ {event.uri} : PendingOf(other) # {}

\* a range that covers every line of a document
WholeDocument == [start |-> 0, end |-> 4]

\* the hint h is the hint of the validation v among the validations of uri:
\* its place, its label, a warning label exactly with a diagnostic of the
\* step, and as tooltip the markdown that hover shows on the step
HintOf(h, v, validations, uri) ==
    /\ h.position = [line |-> IF v.step.end_line # None THEN v.step.end_line.line
                              ELSE v.step.line,
                     character |-> v.step.col_end]
    /\ h.label = (IF v.result \in {EXACT, FUZZY} THEN "check" ELSE "warning")
    /\ (v.result \in {NOT_FOUND, MISMATCH}) <=> (h.label = "warning")
    /\ (h.label = "warning")
           <=> (\E d \in 1..Len(Diagnostics(uri, validations)) :
                   WarningOf(Diagnostics(uri, validations)[d], v, uri))
    /\ StepHover(validations,
                 [line |-> v.step.line, character |-> v.step.col_start]) # None
    /\ h.tooltip = StepHover(validations,
                             [line |-> v.step.line,
                              character |-> v.step.col_start]).value.contents

\* the response is one hint per validation of the document's version
HintPerValidation(uri) ==
    /\ server._doc_validations[uri] # None
    /\ server._doc_validations[uri].version = workspace[uri].version
    /\ IF server._doc_validations[uri].value = <<>> THEN event.response = None
       ELSE /\ event.response # None
            /\ Len(event.response.value) = Len(server._doc_validations[uri].value)
            /\ \A k \in 1..Len(event.response.value) :
                  HintOf(event.response.value[k],
                         server._doc_validations[uri].value[k],
                         server._doc_validations[uri].value, uri)

\* C27: for the same (uri, version), inlay_hint over a range covering the
\* whole document returns exactly one hint per validation, placed at
\* (end_line or line, col_end), labelled with the check mark for EXACT and
\* FUZZY and with the warning sign for NOT_FOUND and MISMATCH; hence a step
\* carries a warning hint iff a diagnostic is published for it, and the
\* hint's tooltip text equals the hover text for that step.
C27_HintPerValidation ==
    [][\A uri \in Documents :
          (event'.handler = "inlay_hint" /\ inlay_hint(uri, WholeDocument))
              => HintPerValidation(uri)']_vars

\* C27 witness: three hints for the three validations of a document, a check
\* mark among them and a warning sign behind the second line of its comment
C27_Witness ==
    /\ event.handler = "inlay_hint"
    /\ event.response # None
    /\ Len(event.response.value) = 3
    /\ Len(server._doc_validations[event.uri].value) = 3
    /\ \E k \in 1..3 : event.response.value[k].label = "check"
    /\ \E k \in 1..3 :
          /\ event.response.value[k].label = "warning"
          /\ server._doc_validations[event.uri].value[k].step.end_line # None
          /\ event.response.value[k].position.line
                 = server._doc_validations[event.uri].value[k].step.end_line.line

\* the algorithm tree parsed from the content that provider.query returns
\* for the spec#anchor of a citation; no step when the query fails
OwnTree(url) ==
    IF <<url.spec, url.anchor>> \in DOMAIN SpecData
    THEN parse_steps(SpecData[<<url.spec, url.anchor>>].content)
    ELSE <<>>

\* the validations of the scope are those of its step comments against the
\* tree of its own citation
ValidatedAgainstOwnTree(scope, validations, threshold) ==
    \A j \in 1..Len(validations) :
        validations[j].step \in Range(scope.steps) =>
            validations[j]
                = ValidateSteps(<<validations[j].step>>, OwnTree(scope.url),
                                scope.url.anchor, threshold)[1]

\* the coverage of the citation counts the steps of the tree of its own
\* citation
CoveredAgainstOwnTree(coverage) ==
    coverage.cov.total_steps = Len(flatten_steps(OwnTree(coverage.url)))

\* C28: after any sequence of analyses, every validation and coverage
\* produced for a scope citing (spec, anchor) is computed against the
\* algorithm tree parsed from the content that provider.query returns for
\* that same spec#anchor, also when another spec with an equal anchor name
\* was analysed earlier in the session.
C28_OwnAlgorithmTree ==
    \A uri \in Documents :
        (/\ server._doc_validations[uri] # None
         /\ server._doc_scopes[uri] # None
         /\ server._doc_scopes[uri].version = server._doc_validations[uri].version
         /\ server._doc_scopes[uri].origin = server._doc_validations[uri].origin)
            => /\ \A i \in 1..Len(server._doc_scopes[uri].value) :
                     ValidatedAgainstOwnTree(server._doc_scopes[uri].value[i],
                                             server._doc_validations[uri].value,
                                             server.fuzzy_threshold)
               /\ (/\ server._doc_coverages[uri] # None
                   /\ server._doc_coverages[uri].version
                          = server._doc_validations[uri].version
                   /\ server._doc_coverages[uri].origin
                          = server._doc_validations[uri].origin)
                      => \A c \in 1..Len(server._doc_coverages[uri].value) :
                            CoveredAgainstOwnTree(server._doc_coverages[uri].value[c])

\* the scopes of a uri are those of the version of its validations
ScopesOfValidations(uri) ==
    server._doc_validations[uri] # None =>
        /\ server._doc_scopes[uri] # None
        /\ server._doc_scopes[uri].version = server._doc_validations[uri].version
        /\ server._doc_scopes[uri].origin = server._doc_validations[uri].origin

\* the coverages of a uri are those of the validations and the scopes that
\* the uri has now, in their version
CoveragesOfValidations(uri) ==
    /\ server._doc_validations[uri] # None
    /\ server._doc_scopes[uri] # None
    /\ server._doc_coverages[uri].version = server._doc_validations[uri].version
    /\ server._doc_coverages[uri].version = server._doc_scopes[uri].version
    /\ server._doc_coverages[uri].origin
           = server._doc_validations[uri].origin \cup server._doc_scopes[uri].origin
    /\ server._doc_coverages[uri].value
           = (IF server._doc_validations[uri].value = <<>> THEN <<>>
              ELSE CoverScopes(server, server._doc_scopes[uri].value,
                               server._doc_validations[uri].value, 1))

\* lines 189-192 have run: no coverages stored for validations of the same
\* version that are there
FallbackFired(uri) ==
    /\ server._doc_coverages[uri] # None
    /\ server._doc_validations[uri] # None
    /\ server._doc_coverages[uri].version = server._doc_validations[uri].version
    /\ server._doc_coverages[uri].origin = server._doc_validations[uri].origin
    /\ server._doc_validations[uri].value # <<>>
    /\ server._doc_coverages[uri].value = <<>>

\* C29: in every reachable server state, whenever doc_validations holds an
\* entry (v, _) for a uri, doc_scopes holds an entry for that uri with the
\* same version v, and whenever doc_coverages holds (v, _) it was computed
\* from the validations and scopes of version v; so the stale-scope fallback
\* in _coverage_doc never fires after _validate_doc returns.
C29_ScopesWithValidations ==
    /\ [](\A uri \in Documents : ScopesOfValidations(uri) /\ ~FallbackFired(uri))
    /\ [][\A uri \in Documents :
             (/\ server'._doc_coverages[uri] # server._doc_coverages[uri]
              /\ server'._doc_coverages[uri] # None)
                 => CoveragesOfValidations(uri)']_vars

\* C29 witness: code_lens has stored the coverages of a changed document, in
\* the version of its validations and its scopes
C29_Witness ==
    /\ event.handler = "code_lens"
    /\ server._doc_coverages[event.uri] # None
    /\ server._doc_coverages[event.uri].value # <<>>
    /\ server._doc_coverages[event.uri].version = 2
    /\ server._doc_validations[event.uri].version = 2
    /\ server._doc_scopes[event.uri].version = 2

\* C29 witness: the coverages of a uri are those of an earlier version than
\* its validations and scopes
C29_WitnessStale ==
    \E uri \in Documents :
        /\ server._doc_coverages[uri] # None
        /\ server._doc_validations[uri] # None
        /\ server._doc_coverages[uri].version < server._doc_validations[uri].version
        /\ server._doc_scopes[uri].version = server._doc_validations[uri].version

\* the keys that the provider was asked in the step
Asked == Range(server.provider.calls)

\* the citations of the document under the cursor whose query fails
FailedUnder(uri, pos) ==
    SelectSeq(server._doc_urls[uri].value,
              LAMBDA u : /\ u.line = pos.line
                         /\ u.col_start <= pos.character
                         /\ pos.character <= u.col_end
                         /\ <<u.spec, u.anchor>> \notin DOMAIN SpecData)

\* an entry of the query cache stays and keeps the provider from being asked;
\* what the provider was asked is stored when the query succeeded, and
\* nothing is stored when it failed
QueryCacheStep ==
    \A key \in Keys :
        /\ server._query_cache[key] # None =>
              /\ server'._query_cache[key] = server._query_cache[key]
              /\ server' # server => key \notin Asked'
        /\ (server' # server /\ key \in Asked') =>
              server'._query_cache[key] = ProviderQuery(key)
        /\ (server._query_cache[key] = None /\ server'._query_cache[key] # None) =>
              key \in Asked'

\* an entry of the algorithm-steps cache stays
AlgoStepsCacheStep ==
    \A anchor \in Anchors :
        server._algo_steps_cache[anchor] # None =>
            server'._algo_steps_cache[anchor] = server._algo_steps_cache[anchor]

\* a hover on a citation whose query fails asks the provider, whatever was
\* asked before
FailedLookupAsksAgain ==
    \A uri \in Documents : \A pos \in Positions :
        (event'.handler = "hover" /\ hover(uri, pos)) =>
            \A k \in 1..Len(FailedUnder(uri, pos)') :
                <<FailedUnder(uri, pos)'[k].spec, FailedUnder(uri, pos)'[k].anchor>>
                    \in Asked'

\* C30: a successful provider.query result for a key spec#anchor is stored
\* and the provider is never queried again for that key; a failed query
\* stores nothing, so a later lookup queries the provider again; and no
\* handler (change, close, hover, lens) ever changes or removes an entry of
\* the query cache or of the algorithm-steps cache once it is present.
C30_ServerLifetimeCaches ==
    /\ [][QueryCacheStep]_vars
    /\ [][AlgoStepsCacheStep]_vars
    /\ [][FailedLookupAsksAgain]_vars

\* C30 witness: a hover on a citation whose query had failed when the
\* document was opened has asked the provider again, and nothing is stored
C30_Witness ==
    /\ event.handler = "hover"
    /\ server._doc_validations[event.uri] # None
    /\ <<"HTML", "b">> \in Asked
    /\ server._query_cache[<<"HTML", "b">>] = None

\* C30 witness: code_lens on a changed document has answered from the entry
\* of the query cache without asking the provider
C30_WitnessStored ==
    /\ event.handler = "code_lens"
    /\ event.response # None
    /\ workspace[event.uri].version = 2
    /\ server._query_cache[<<"HTML", "a">>] # None
    /\ Asked = {}

=============================================================================
